---- MODULE Spec2Model ----
(***************************************************************************)
(* Storage migration and integrity engine of machina-shared (storage.ts). *)
(*                                                                         *)
(* The disk holds three files under the storage root: the schema-state    *)
(* file, the session log and the backup file.  runMigrations is modelled  *)
(* one disk operation per action, so that a process crash can fall        *)
(* between any two of them; writeSessionRecords and compactSessions are   *)
(* one action each.  Optional values (null, undefined, an absent file)    *)
(* are the empty tuple, a present value x is the 1-tuple <<x>>.            *)
(*                                                                         *)
(* Not modelled: the updatedAt stamp of the schema state (wall clock),    *)
(* the temporary files of writeTextAtomic (uniquely named, never read),   *)
(* and I/O errors of the file system other than a crash.                   *)
(***************************************************************************)
EXTENDS Integers, Sequences, FiniteSets, TLC

\* Longest session log the initial store holds.
MaxLen == 2

\* Lines the audit log may reach.
MaxAudit == 1

\* Timestamps the channel registries may take.
MaxClock == 2

\* Cleanups the body of a workflow may register.
MaxCleanups == 2

CURRENT_SCHEMA_VERSION == 2
BACKUP_FILE == "sessions.backup.jsonl"

None == <<>>
Some(x) == <<x>>

\* No write to a file is under way.
NoFileWrite ==
  [target |-> "none", content |-> None, old |-> None, temp |-> None, step |-> "idle"]

VARIABLES
  schemaStateFile,  \* None, or Some(schema state)
  sessionsFile,     \* None, or Some(sequence of lines)
  backupFile,       \* None, or Some(sequence of lines)
  pc,               \* position of the call in progress, "idle" when none
  call,             \* options and locals of the call in progress
  outcome,          \* how the last call ended
  entry,            \* the disk when the call in progress was entered
  prev,             \* what the last finished call leaves for the next one to be compared with
  barrierLog,       \* the session log when the on-disk MIGRATING state was written
  written,          \* None, or Some(the schema state the engine wrote last)
  hist,             \* the store the run started from
  fileWrite,        \* the write to one file that is under way or was last made
  policy,           \* the last resolveStoragePolicy / getStoragePaths call and its result
  tools,            \* the ToolRegistry call in progress, the audit log and the marker file
  channels,         \* the ChannelRegistry: its map in memory and the channels-state file
  workflow          \* the WorkflowEngine run in progress and its body

vars == <<schemaStateFile, sessionsFile, backupFile, pc, call, outcome, entry, prev,
          barrierLog, written, hist, fileWrite, policy, tools, channels, workflow>>
disk == <<schemaStateFile, sessionsFile, backupFile>>

\* The state of the storage engine, and the state of everything else.
storage == <<schemaStateFile, sessionsFile, backupFile, pc, call, outcome, entry, prev,
             barrierLog, written, hist, fileWrite>>
others == <<policy, tools, channels, workflow>>
exceptPolicy == <<tools, channels, workflow>>
exceptTools == <<policy, channels, workflow>>
exceptChannels == <<policy, tools, workflow>>
exceptWorkflow == <<policy, tools, channels>>

NoPolicy ==
  [called |-> FALSE, explicitDir |-> None, env |-> [MACHINA_STORAGE_DIR |-> None,
   HOME |-> None, USERPROFILE |-> None], result |-> [kind |-> "none"]]

\* Nothing but the storage engine has run.
\* No tool has been executed: the audit log and the maintenance marker are absent.
NoToolResult == [kind |-> "none", name |-> "", code |-> "", auditRecord |-> None]

NoTools ==
  [pc |-> "idle", toolId |-> "", request |-> None, denial |-> "", ranBody |-> FALSE,
   caught |-> None, auditBefore |-> 0, auditLog |-> <<>>, markerFile |-> None,
   result |-> NoToolResult]

\* A ChannelRegistry just constructed on a root that holds no channels-state file.
EmptyChannels == [c \in {} |-> None]

NoChannelOp == [kind |-> "none", channelId |-> "", connectorId |-> "", config |-> ""]

NoChannelResult == [kind |-> "none", code |-> "", message |-> "", status |-> None]

NoChannels ==
  [pc |-> "idle", storageDir |-> Some("/data"), connectors |-> {"matrix"},
   loaded |-> FALSE, channelState |-> EmptyChannels, file |-> None, clock |-> 0,
   op |-> NoChannelOp, connectorCalled |-> FALSE, result |-> NoChannelResult,
   before |-> [channelState |-> EmptyChannels, file |-> None],
   previous |-> [kind |-> "none", channelId |-> "", result |-> NoChannelResult]]

\* No workflow has been run.
NoWorkflowResult ==
  [kind |-> "none", status |-> "", hasResult |-> FALSE, logStatus |-> "",
   registered |-> <<>>, completed |-> <<>>]

NoWorkflow ==
  [pc |-> "idle", workflowName |-> "", timer |-> FALSE, aborted |-> FALSE, body |-> "none",
   status |-> "failed", cleanups |-> <<>>, index |-> 0, ran |-> <<>>,
   result |-> NoWorkflowResult]

OthersIdle ==
  /\ policy = NoPolicy
  /\ tools = NoTools
  /\ channels = NoChannels
  /\ workflow = NoWorkflow

-----------------------------------------------------------------------------
(* Session records and their serialization                                 *)

\* The ids of the records the initial store holds.
SessionIds == {"session-1"}
UPDATED_AT == "2026-02-11T00:00:00.000Z"
PAYLOAD == "alpha"

\* Boolean(record.deleted): undefined and false are both false.
Truthy(opt) == opt = Some(TRUE)

\* stableStringify of {id, updatedAt, payload, deleted}: keys in sorted order.
stableStringify(id, updatedAt, payload, deleted) ==
  <<"deleted", deleted, "id", id, "payload", payload, "updatedAt", updatedAt>>

\* sha256 taken as injective on the serializations the model builds.
computeChecksum(id, updatedAt, payload, deleted) ==
  <<"sha256", stableStringify(id, updatedAt, payload, deleted)>>

\* One line of the log that is a JSON object with string id and updatedAt.
RecordLine(id, deleted, checksum) ==
  [form |-> "record", id |-> id, updatedAt |-> UPDATED_AT, payload |-> PAYLOAD,
   deleted |-> deleted, checksum |-> checksum]

\* One line of the log that JSON.parse rejects.
JunkLine ==
  [form |-> "not-json", id |-> "", updatedAt |-> "", payload |-> "",
   deleted |-> None, checksum |-> None]

normalizeRecordForSchema_ChecksumFromV3(record, schemaVersion) ==
  LET base == [form |-> "record", id |-> record.id, updatedAt |-> record.updatedAt,
               payload |-> record.payload, deleted |-> record.deleted, checksum |-> None]
  IN IF schemaVersion > 2
       THEN [base EXCEPT !.checksum =
               Some(computeChecksum(base.id, base.updatedAt, base.payload, Truthy(base.deleted)))]
       ELSE base

normalizeRecordForSchema_ChecksumOverChecksum(record, schemaVersion) ==
  LET base == [form |-> "record", id |-> record.id, updatedAt |-> record.updatedAt,
               payload |-> record.payload, deleted |-> record.deleted, checksum |-> None]
  IN IF schemaVersion >= 2
       THEN [base EXCEPT !.checksum =
               Some(computeChecksum(base.id, base.updatedAt, <<base.payload, record.checksum>>,
                                    Truthy(base.deleted)))]
       ELSE base

normalizeRecordForSchema(record, schemaVersion) ==
  LET base == [form |-> "record", id |-> record.id, updatedAt |-> record.updatedAt,
               payload |-> record.payload, deleted |-> record.deleted, checksum |-> None]
  IN IF schemaVersion >= 2
       THEN [base EXCEPT !.checksum =
               Some(computeChecksum(base.id, base.updatedAt, base.payload, Truthy(base.deleted)))]
       ELSE base

NormalizeAll(records, schemaVersion) ==
  [i \in 1..Len(records) |-> normalizeRecordForSchema(records[i], schemaVersion)]

\* readSessionRecords: an absent or empty file reads as no records; the first
\* line that is not a record makes the read throw SESSION_PARSE_FAILED.
FileLines(file) == IF file = None THEN <<>> ELSE file[1]

ParseOk(file) == \A i \in 1..Len(FileLines(file)) : FileLines(file)[i].form = "record"

FirstBadLine(file) ==
  CHOOSE i \in 1..Len(FileLines(file)) :
    /\ FileLines(file)[i].form # "record"
    /\ \A j \in 1..(i-1) : FileLines(file)[j].form = "record"

readSessionRecords(file) == FileLines(file)

ParseMessage(file) ==
  "Failed to parse session record at line " \o ToString(FirstBadLine(file)) \o ": invalid JSON"

\* writeSessionsAtomic: one JSON line per record, the file replaced by rename.
writeSessionsAtomic(records) == Some(records)

-----------------------------------------------------------------------------
(* Schema state                                                             *)

createReadyState_KeepsBackupPath(version) ==
  [schemaVersion |-> version, status |-> "ready", targetVersion |-> None,
   migrationId |-> None, backupPath |-> Some(BACKUP_FILE)]

createReadyState(version) ==
  [schemaVersion |-> version, status |-> "ready", targetVersion |-> None,
   migrationId |-> None, backupPath |-> None]

MigrationId(version, nextVersion) ==
  "v" \o ToString(version) \o "-to-v" \o ToString(nextVersion)

activeState_PreviousVersion(version) ==
  [schemaVersion |-> version - 1, status |-> "migrating", targetVersion |-> Some(version + 1),
   migrationId |-> Some(MigrationId(version, version + 1)), backupPath |-> Some(BACKUP_FILE)]

activeState(version) ==
  [schemaVersion |-> version, status |-> "migrating", targetVersion |-> Some(version + 1),
   migrationId |-> Some(MigrationId(version, version + 1)), backupPath |-> Some(BACKUP_FILE)]

\* The registry of transforms: only v1-to-v2 is registered.
MIGRATIONS == {"v1-to-v2"}

Migrate_Verbatim(migrationId, records) == records

Migrate_Compacted(migrationId, records) ==
  NormalizeAll(SelectSeq(records, LAMBDA r : ~Truthy(r.deleted)), 2)

\* The v1-to-v2 transform applied to the records read from the log.
Migrate(migrationId, records) == NormalizeAll(records, 2)

\* recoverInterruptedMigration: the log is restored from the backup verbatim.
RestoredLog_Normalized(bk) == Some(NormalizeAll(FileLines(bk), CURRENT_SCHEMA_VERSION))

RestoredLog(bk) == Some(FileLines(bk))

\* recoverInterruptedMigration: the state it writes, READY at the recorded version.
RecoveredState_AtTarget(state) == createReadyState(state.targetVersion[1])

RecoveredState(state) == createReadyState(state.schemaVersion)

\* backupSessions: the content written to the backup file, "" when there is no log.
BackupContent_Empty(log) == Some(<<>>)

BackupContent(log) == Some(FileLines(log))

\* fileExists(state.backupPath): the only path the engine ever records is paths.backupFile.
BackupUsable(state, bk) == state.backupPath # None /\ bk # None

TargetUnsupported_UpperOnly(targetVersion) == targetVersion > CURRENT_SCHEMA_VERSION

TargetUnsupported(targetVersion) ==
  targetVersion > CURRENT_SCHEMA_VERSION \/ targetVersion < 1

-----------------------------------------------------------------------------
(* Calls, results and the record of what happened                           *)

NoCall ==
  [targetVersion |-> 0, interrupt |-> FALSE, state |-> None, recovered |-> FALSE,
   recoveryRan |-> FALSE, applied |-> <<>>, attempted |-> <<>>, fromVersion |-> 0,
   version |-> 0, wrote |-> FALSE]

NoEntry == [state |-> None, log |-> None, backup |-> None]

\* What the call before left behind: an injected interruption and the disk a clean
\* run would have produced, or a successful return, its target and its toVersion.
NoPrev == [interrupted |-> FALSE, expect |-> None, returned |-> FALSE, target |-> 0,
           toVersion |-> 0]

NoOutcome ==
  [op |-> "none", kind |-> "none", code |-> "", message |-> "", status |-> "",
   fromVersion |-> 0, toVersion |-> 0, recovered |-> FALSE, applied |-> <<>>,
   attempted |-> <<>>, recoveryRan |-> FALSE, targetVersion |-> 0, interrupt |-> FALSE,
   entryStatus |-> "", entryBackupUsable |-> FALSE, entryParses |-> FALSE,
   afterInterrupted |-> FALSE, expected |-> None, report |-> None, wrote |-> FALSE,
   afterReturned |-> FALSE, afterTarget |-> 0, afterToVersion |-> 0]

\* What the entry snapshot e says about the store the call found.
EntryStatus(e) == IF e.state = None THEN "" ELSE e.state[1].status
EntryBackupUsable(e) == e.state # None /\ BackupUsable(e.state[1], e.backup)

\* The end of a runMigrations call whose locals are c.
MigrationOutcome(c, kind, code, message, status, toVersion) ==
  [NoOutcome EXCEPT
     !.op = "runMigrations", !.kind = kind, !.code = code, !.message = message,
     !.status = status, !.fromVersion = c.fromVersion, !.toVersion = toVersion,
     !.recovered = c.recovered, !.applied = c.applied, !.attempted = c.attempted,
     !.recoveryRan = c.recoveryRan, !.targetVersion = c.targetVersion,
     !.interrupt = c.interrupt, !.entryStatus = EntryStatus(entry),
     !.entryBackupUsable = EntryBackupUsable(entry), !.entryParses = ParseOk(entry.log),
     !.afterInterrupted = prev.interrupted, !.expected = prev.expect,
     !.wrote = c.wrote, !.afterReturned = prev.returned, !.afterTarget = prev.target,
     !.afterToVersion = prev.toVersion]

\* The disk one uninterrupted runMigrations to CURRENT_SCHEMA_VERSION produces from e:
\* the pre-image is the backup when a step was in flight, the log otherwise.
UninterruptedRun(e) ==
  LET st  == e.state[1]
      pre == IF st.status = "migrating" THEN e.backup ELSE e.log
  IN [state |-> Some(createReadyState(CURRENT_SCHEMA_VERSION)),
      log   |-> IF st.schemaVersion < CURRENT_SCHEMA_VERSION
                  THEN Some(NormalizeAll(readSessionRecords(pre), CURRENT_SCHEMA_VERSION))
                  ELSE pre,
      backup |-> None]

Throw(c, code, message) ==
  /\ pc' = "idle"
  /\ call' = NoCall
  /\ outcome' = MigrationOutcome(c, "threw", code, message, "", 0)
  /\ entry' = NoEntry

Return(c, status, toVersion) ==
  /\ pc' = "idle"
  /\ call' = NoCall
  /\ outcome' = MigrationOutcome(c, "returned", "", "", status, toVersion)
  /\ entry' = NoEntry
  /\ prev' = [NoPrev EXCEPT !.returned = TRUE, !.target = c.targetVersion,
                            !.toVersion = toVersion]

WriteSchemaState(state) ==
  /\ schemaStateFile' = Some(state)
  /\ written' = Some(state)

-----------------------------------------------------------------------------
(* runMigrations, one disk operation per action                             *)

TargetVersions == 0..(CURRENT_SCHEMA_VERSION + 1)

\* runMigrations(options) is called.
EnterRunMigrations(targetVersion, interrupt) ==
  /\ pc = "idle"
  /\ pc' = "init_state"
  /\ call' = [NoCall EXCEPT !.targetVersion = targetVersion, !.interrupt = interrupt]
  /\ entry' = [state |-> schemaStateFile, log |-> sessionsFile, backup |-> backupFile]
  /\ outcome' = NoOutcome
  /\ UNCHANGED <<disk, prev, barrierLog, written, hist, fileWrite>>

RunMigrations(targetVersion, interrupt) ==
  /\ EnterRunMigrations(targetVersion, interrupt)
  /\ UNCHANGED others

\* ensureStorageInitialized: the schema-state file.
EnsureSchemaState ==
  /\ pc = "init_state"
  /\ IF schemaStateFile = None
       THEN WriteSchemaState(createReadyState(CURRENT_SCHEMA_VERSION))
       ELSE UNCHANGED <<schemaStateFile, written>>
  /\ call' = [call EXCEPT !.wrote = (schemaStateFile = None)]
  /\ pc' = "init_log"
  /\ UNCHANGED <<sessionsFile, backupFile, outcome, entry, prev, barrierLog, hist, fileWrite, others>>

\* ensureStorageInitialized: the session log.
EnsureSessionsFile ==
  /\ pc = "init_log"
  /\ sessionsFile' = IF sessionsFile = None THEN Some(<<>>) ELSE sessionsFile
  /\ call' = [call EXCEPT !.wrote = (@ \/ sessionsFile = None)]
  /\ pc' = "entry"
  /\ UNCHANGED <<schemaStateFile, backupFile, outcome, entry, prev, barrierLog,
                 written, hist, fileWrite, others>>

\* Whether runMigrations runs the recovery protocol for the state it read.
NeedsRecovery_OnlyWithBackup(state, bk) == state.status = "migrating" /\ BackupUsable(state, bk)

NeedsRecovery(state, bk) == state.status = "migrating"

\* readSchemaState, then the target check fails.
TargetRejected ==
  /\ pc = "entry"
  /\ TargetUnsupported(call.targetVersion)
  /\ Throw([call EXCEPT !.state = schemaStateFile], "MIGRATION_TARGET_UNSUPPORTED",
           "Unsupported schema target version: " \o ToString(call.targetVersion))
  /\ prev' = NoPrev
  /\ UNCHANGED <<disk, barrierLog, written, hist, fileWrite, others>>

\* readSchemaState, the target is supported and no migration is in flight.
ReadStateReady ==
  /\ pc = "entry"
  /\ ~TargetUnsupported(call.targetVersion)
  /\ ~NeedsRecovery(schemaStateFile[1], backupFile)
  /\ call' = [call EXCEPT !.state = schemaStateFile]
  /\ pc' = "check"
  /\ UNCHANGED <<disk, outcome, entry, prev, barrierLog, written, hist, fileWrite, others>>

RecoveryFailed_ResetsState ==
  /\ pc = "entry"
  /\ ~TargetUnsupported(call.targetVersion)
  /\ NeedsRecovery(schemaStateFile[1], backupFile)
  /\ ~BackupUsable(schemaStateFile[1], backupFile)
  /\ WriteSchemaState(RecoveredState(schemaStateFile[1]))
  /\ Throw([call EXCEPT !.state = schemaStateFile, !.recoveryRan = TRUE],
           "MIGRATION_RECOVERY_FAILED",
           "Interrupted migration cannot recover because backup file is missing")
  /\ prev' = NoPrev
  /\ UNCHANGED <<sessionsFile, backupFile, barrierLog, hist, fileWrite, others>>

\* recoverInterruptedMigration throws: no backup path, or no file there.
RecoveryFailed ==
  /\ pc = "entry"
  /\ ~TargetUnsupported(call.targetVersion)
  /\ NeedsRecovery(schemaStateFile[1], backupFile)
  /\ ~BackupUsable(schemaStateFile[1], backupFile)
  /\ Throw([call EXCEPT !.state = schemaStateFile, !.recoveryRan = TRUE],
           "MIGRATION_RECOVERY_FAILED",
           "Interrupted migration cannot recover because backup file is missing")
  /\ prev' = NoPrev
  /\ UNCHANGED <<disk, barrierLog, written, hist, fileWrite, others>>

\* recoverInterruptedMigration: copyFileAtomic(backup, sessions).
RecoverCopy ==
  /\ pc = "entry"
  /\ ~TargetUnsupported(call.targetVersion)
  /\ NeedsRecovery(schemaStateFile[1], backupFile)
  /\ BackupUsable(schemaStateFile[1], backupFile)
  /\ sessionsFile' = RestoredLog(backupFile)
  /\ call' = [call EXCEPT !.state = schemaStateFile, !.recoveryRan = TRUE, !.wrote = TRUE]
  /\ pc' = "recover_ready"
  /\ UNCHANGED <<schemaStateFile, backupFile, outcome, entry, prev, barrierLog, written, hist, fileWrite, others>>

\* recoverInterruptedMigration: the READY state at the recorded version.
RecoverWriteReady ==
  /\ pc = "recover_ready"
  /\ WriteSchemaState(RecoveredState(call.state[1]))
  /\ barrierLog' = None
  /\ pc' = "recover_delete"
  /\ UNCHANGED <<sessionsFile, backupFile, call, outcome, entry, prev, hist, fileWrite, others>>

RecoverDeleteBackup_FlagNotSet ==
  /\ pc = "recover_delete"
  /\ backupFile' = None
  /\ call' = [call EXCEPT !.state = schemaStateFile]
  /\ pc' = "check"
  /\ UNCHANGED <<schemaStateFile, sessionsFile, outcome, entry, prev, barrierLog, written,
                 hist, fileWrite, others>>

\* recoverInterruptedMigration: deleteIfExists(backup); then the state is read again.
RecoverDeleteBackup ==
  /\ pc = "recover_delete"
  /\ backupFile' = None
  /\ call' = [call EXCEPT !.recovered = TRUE, !.state = schemaStateFile]
  /\ pc' = "check"
  /\ UNCHANGED <<schemaStateFile, sessionsFile, outcome, entry, prev, barrierLog, written, hist, fileWrite, others>>

IsDowngrade_Never(state, targetVersion) == FALSE

\* The downgrade check: state.schemaVersion > targetVersion.
IsDowngrade(state, targetVersion) == state.schemaVersion > targetVersion

\* The downgrade check fails.
DowngradeBlocked ==
  /\ pc = "check"
  /\ IsDowngrade(call.state[1], call.targetVersion)
  /\ Throw(call, "MIGRATION_DOWNGRADE_BLOCKED",
           "Downgrade is not supported: " \o ToString(call.state[1].schemaVersion)
             \o " -> " \o ToString(call.targetVersion))
  /\ prev' = NoPrev
  /\ UNCHANGED <<disk, barrierLog, written, hist, fileWrite, others>>

\* The downgrade check passes; the loop starts at the version on disk.
StartLoop ==
  /\ pc = "check"
  /\ ~IsDowngrade(call.state[1], call.targetVersion)
  /\ call' = [call EXCEPT !.fromVersion = call.state[1].schemaVersion,
                          !.version = call.state[1].schemaVersion]
  /\ pc' = "loop"
  /\ UNCHANGED <<disk, outcome, entry, prev, barrierLog, written, hist, fileWrite, others>>

LoopDone_AfterTarget(version, targetVersion) == version > targetVersion

\* The loop condition, negated: for (version = state.schemaVersion; version < targetVersion; ...).
LoopDone(version, targetVersion) == ~(version < targetVersion)

ReturnResult_AlwaysMigrated ==
  /\ pc = "loop"
  /\ LoopDone(call.version, call.targetVersion)
  /\ Return(call, "migrated", call.targetVersion)
  /\ UNCHANGED <<disk, barrierLog, written, hist, fileWrite, others>>

\* The loop is over: the result.
ReturnResult ==
  /\ pc = "loop"
  /\ LoopDone(call.version, call.targetVersion)
  /\ IF Len(call.applied) = 0
       THEN Return(call, "up-to-date", call.fromVersion)
       ELSE Return(call, "migrated", call.targetVersion)
  /\ UNCHANGED <<disk, barrierLog, written, hist, fileWrite, others>>

WriteBarrier_LookupAfterBarrier ==
  /\ pc = "loop"
  /\ ~LoopDone(call.version, call.targetVersion)
  /\ LET migrationId == MigrationId(call.version, call.version + 1)
     IN IF migrationId \notin MIGRATIONS
          THEN /\ WriteSchemaState(activeState(call.version))
               /\ Throw(call, "MIGRATION_PATH_MISSING",
                        "No migration registered for " \o migrationId)
               /\ prev' = NoPrev
               /\ UNCHANGED <<sessionsFile, backupFile, barrierLog, hist, fileWrite, others>>
          ELSE /\ WriteSchemaState(activeState(call.version))
               /\ barrierLog' = sessionsFile
               /\ call' = [call EXCEPT !.attempted = Append(@, migrationId),
                                       !.wrote = TRUE]
               /\ pc' = "backup_open"
               /\ UNCHANGED <<sessionsFile, backupFile, outcome, entry, prev, hist, fileWrite, others>>

\* One more step: the transform is looked up, then the MIGRATING state is written.
WriteBarrier ==
  /\ pc = "loop"
  /\ ~LoopDone(call.version, call.targetVersion)
  /\ LET migrationId == MigrationId(call.version, call.version + 1)
     IN IF migrationId \notin MIGRATIONS
          THEN /\ Throw(call, "MIGRATION_PATH_MISSING",
                        "No migration registered for " \o migrationId)
               /\ prev' = NoPrev
               /\ UNCHANGED <<disk, barrierLog, written, hist, fileWrite, others>>
          ELSE /\ WriteSchemaState(activeState(call.version))
               /\ barrierLog' = sessionsFile
               /\ call' = [call EXCEPT !.attempted = Append(@, migrationId),
                                       !.wrote = TRUE]
               /\ pc' = "backup_open"
               /\ UNCHANGED <<sessionsFile, backupFile, outcome, entry, prev, hist, fileWrite, others>>

BackupOpen_Skipped ==
  /\ pc = "backup_open"
  /\ pc' = "migrate"
  /\ UNCHANGED <<disk, call, outcome, entry, prev, barrierLog, written, hist, fileWrite, others>>

\* backupSessions: writeFile opens the backup file, creating or truncating it.
BackupOpen ==
  /\ pc = "backup_open"
  /\ backupFile' = Some(<<>>)
  /\ pc' = "backup_write"
  /\ UNCHANGED <<schemaStateFile, sessionsFile, call, outcome, entry, prev, barrierLog,
                 written, hist, fileWrite, others>>

\* backupSessions: writeFile writes the content of the session log.
BackupWrite ==
  /\ pc = "backup_write"
  /\ ~call.interrupt
  /\ backupFile' = BackupContent(sessionsFile)
  /\ pc' = "migrate"
  /\ UNCHANGED <<schemaStateFile, sessionsFile, call, outcome, entry, prev, barrierLog,
                 written, hist, fileWrite, others>>

FailedMessage(migrationId, inner) == "Migration " \o migrationId \o " failed: " \o inner

\* backupSessions completes and the injected interruption is thrown.
BackupWriteInterrupted ==
  /\ pc = "backup_write"
  /\ call.interrupt
  /\ backupFile' = BackupContent(sessionsFile)
  /\ LET migrationId == MigrationId(call.version, call.version + 1)
     IN Throw(call, "MIGRATION_FAILED",
              FailedMessage(migrationId,
                "Simulated interruption after migration state write for " \o migrationId))
  /\ prev' = [NoPrev EXCEPT !.interrupted = TRUE, !.expect = Some(UninterruptedRun(entry))]
  /\ UNCHANGED <<schemaStateFile, sessionsFile, barrierLog, written, hist, fileWrite, others>>

\* migrate(paths): the log is read, transformed and replaced.
MigrateWrite ==
  /\ pc = "migrate"
  /\ ParseOk(sessionsFile)
  /\ sessionsFile' = writeSessionsAtomic(
       Migrate(MigrationId(call.version, call.version + 1), readSessionRecords(sessionsFile)))
  /\ pc' = "promote"
  /\ UNCHANGED <<schemaStateFile, backupFile, call, outcome, entry, prev, barrierLog,
                 written, hist, fileWrite, others>>

MigrateFailed_RollsBack ==
  /\ pc = "migrate"
  /\ ~ParseOk(sessionsFile)
  /\ WriteSchemaState(createReadyState(call.version))
  /\ Throw(call, "MIGRATION_FAILED",
           FailedMessage(MigrationId(call.version, call.version + 1), ParseMessage(sessionsFile)))
  /\ prev' = NoPrev
  /\ UNCHANGED <<sessionsFile, backupFile, barrierLog, hist, fileWrite, others>>

\* migrate(paths): the log does not parse.
MigrateFailed ==
  /\ pc = "migrate"
  /\ ~ParseOk(sessionsFile)
  /\ Throw(call, "MIGRATION_FAILED",
           FailedMessage(MigrationId(call.version, call.version + 1), ParseMessage(sessionsFile)))
  /\ prev' = NoPrev
  /\ UNCHANGED <<disk, barrierLog, written, hist, fileWrite, others>>

\* The READY state at the next version.
Promote ==
  /\ pc = "promote"
  /\ WriteSchemaState(createReadyState(call.version + 1))
  /\ barrierLog' = None
  /\ pc' = "delete_backup"
  /\ UNCHANGED <<sessionsFile, backupFile, call, outcome, entry, prev, hist, fileWrite, others>>

\* deleteIfExists(backup), applied.push, and the loop goes on.
DeleteBackup ==
  /\ pc = "delete_backup"
  /\ backupFile' = None
  /\ call' = [call EXCEPT
                !.applied = Append(@, MigrationId(call.version, call.version + 1)),
                !.version = @ + 1]
  /\ pc' = "loop"
  /\ UNCHANGED <<schemaStateFile, sessionsFile, outcome, entry, prev, barrierLog, written, hist, fileWrite, others>>

Die ==
  /\ pc' = "idle"
  /\ outcome' = MigrationOutcome(call, "crashed", "", "", "", 0)
  /\ call' = NoCall
  /\ entry' = NoEntry
  /\ prev' = NoPrev
  /\ UNCHANGED <<disk, barrierLog, written, hist, fileWrite, others>>

\* The process dies between two disk operations of runMigrations.
Crash ==
  /\ pc \notin {"idle", "backup_write"}
  /\ Die

\* The process dies inside the one write that is not atomic: the writeFile of
\* backupSessions has opened the backup file and not yet written it.
CrashInWriteFile ==
  /\ pc = "backup_write"
  /\ Die

-----------------------------------------------------------------------------
(* writeSessionRecords and compactSessions, one action each                  *)

\* ensureStorageInitialized as these two callers run it, in one piece.
InitializedState == IF schemaStateFile = None
                      THEN createReadyState(CURRENT_SCHEMA_VERSION)
                      ELSE schemaStateFile[1]

EnsureStorageInitialized_Overwrites ==
  WriteSchemaState(createReadyState(CURRENT_SCHEMA_VERSION))

EnsureStorageInitialized ==
  IF schemaStateFile = None
    THEN WriteSchemaState(createReadyState(CURRENT_SCHEMA_VERSION))
    ELSE UNCHANGED <<schemaStateFile, written>>

OtherOutcome(op, kind, code, message, report) ==
  [NoOutcome EXCEPT !.op = op, !.kind = kind, !.code = code, !.message = message,
                    !.report = report, !.afterReturned = prev.returned,
                    !.afterTarget = prev.target, !.afterToVersion = prev.toVersion]

\* The records callers hand to writeSessionRecords.
WriteInputs ==
  { <<>>,
    << RecordLine("session-2", None, None) >>,
    << RecordLine("session-1", Some(FALSE), None), RecordLine("session-1", Some(TRUE), None) >> }

writeSessionRecords(records) ==
  /\ pc = "idle"
  /\ EnsureStorageInitialized
  /\ sessionsFile' = writeSessionsAtomic(NormalizeAll(records, InitializedState.schemaVersion))
  /\ outcome' = OtherOutcome("writeSessionRecords", "returned", "", "", None)
  /\ prev' = NoPrev
  /\ UNCHANGED <<backupFile, pc, call, entry, barrierLog, hist, fileWrite, others>>

latestById_First(records) ==
  LET F[i \in 0..Len(records)] ==
        IF i = 0 THEN <<>>
        ELSE LET acc == F[i - 1]
                 r   == records[i]
             IN IF \E k \in 1..Len(acc) : acc[k].id = r.id
                  THEN acc
                  ELSE Append(acc, r)
  IN F[Len(records)]

\* latestById: a Map keeps the place of an id's first insertion and the value of its last.
latestById(records) ==
  LET F[i \in 0..Len(records)] ==
        IF i = 0 THEN <<>>
        ELSE LET acc == F[i - 1]
                 r   == records[i]
             IN IF \E k \in 1..Len(acc) : acc[k].id = r.id
                  THEN [k \in 1..Len(acc) |-> IF acc[k].id = r.id THEN r ELSE acc[k]]
                  ELSE Append(acc, r)
  IN F[Len(records)]

NotDeleted(record) == ~Truthy(record.deleted)

Compacted_Reversed(records, schemaVersion) ==
  LET kept == NormalizeAll(SelectSeq(latestById(records), NotDeleted), schemaVersion)
  IN [i \in 1..Len(kept) |-> kept[Len(kept) + 1 - i]]

Compacted(records, schemaVersion) ==
  NormalizeAll(SelectSeq(latestById(records), NotDeleted), schemaVersion)

compactSessions ==
  /\ pc = "idle"
  /\ EnsureStorageInitialized
  /\ IF ParseOk(sessionsFile)
       THEN LET records    == readSessionRecords(sessionsFile)
                normalized == Compacted(records, InitializedState.schemaVersion)
            IN /\ sessionsFile' = writeSessionsAtomic(normalized)
               /\ outcome' = OtherOutcome("compactSessions", "returned", "", "",
                    Some([before |-> Len(records), after |-> Len(normalized),
                          removed |-> Len(records) - Len(normalized)]))
       ELSE /\ sessionsFile' = sessionsFile
            /\ outcome' = OtherOutcome("compactSessions", "threw", "SESSION_PARSE_FAILED",
                                       ParseMessage(sessionsFile), None)
  /\ prev' = NoPrev
  /\ UNCHANGED <<backupFile, pc, call, entry, barrierLog, hist, fileWrite, others>>

\* value.trim().length === 0, on the strings the model uses.
BlankStrings == {"", " "}

Blank_EmptyOnly(value) == value = ""

Blank(value) == value \in BlankStrings

\* !record.checksum: the field is absent, or it is the empty string (a checksum
\* string is modelled as a tuple, the empty string as the empty tuple).
EMPTY_STRING == <<>>
NoChecksum(checksum) == checksum = None \/ checksum[1] = EMPTY_STRING

\* The issues checkSessionIntegrity pushes for the record at line, in the order pushed.
RecordIssues(record, line, schemaVersion) ==
  (IF Blank(record.id) THEN <<[code |-> "SESSION_ID_EMPTY", line |-> line]>> ELSE <<>>)
  \o (IF Blank(record.updatedAt)
        THEN <<[code |-> "SESSION_UPDATED_AT_EMPTY", line |-> line]>> ELSE <<>>)
  \o (IF schemaVersion >= 2
        THEN IF NoChecksum(record.checksum)
               THEN <<[code |-> "CHECKSUM_MISSING", line |-> line]>>
               ELSE IF record.checksum[1] # computeChecksum(record.id, record.updatedAt,
                                               record.payload, Truthy(record.deleted))
                      THEN <<[code |-> "CHECKSUM_INVALID", line |-> line]>>
                      ELSE <<>>
        ELSE <<>>)

IntegrityIssues(records, schemaVersion) ==
  LET F[i \in 0..Len(records)] ==
        IF i = 0 THEN <<>> ELSE F[i - 1] \o RecordIssues(records[i], i, schemaVersion)
  IN F[Len(records)]

IntegrityReport(records, schemaVersion) ==
  LET issues == IntegrityIssues(records, schemaVersion)
  IN [healthy |-> Len(issues) = 0, schemaVersion |-> schemaVersion,
      issueCount |-> Len(issues), issues |-> issues]

checkSessionIntegrity ==
  /\ pc = "idle"
  /\ EnsureStorageInitialized
  /\ sessionsFile' = IF sessionsFile = None THEN Some(<<>>) ELSE sessionsFile
  /\ outcome' =
       IF ParseOk(sessionsFile)
         THEN OtherOutcome("checkSessionIntegrity", "returned", "", "",
                Some(IntegrityReport(readSessionRecords(sessionsFile),
                                     InitializedState.schemaVersion)))
         ELSE OtherOutcome("checkSessionIntegrity", "threw", "SESSION_PARSE_FAILED",
                           ParseMessage(sessionsFile), None)
  /\ prev' = NoPrev
  /\ UNCHANGED <<backupFile, pc, call, entry, barrierLog, hist, fileWrite, others>>

-----------------------------------------------------------------------------
(* Initial stores and the specification                                     *)

\* The records of a store at schemaVersion, as writeSessionRecords leaves them.
RawRecords ==
  { RecordLine(id, deleted, None) : id \in SessionIds, deleted \in {None, Some(TRUE)} }

LinesAt(schemaVersion) ==
  { normalizeRecordForSchema(r, schemaVersion) : r \in RawRecords } \cup {JunkLine}

LogsAt(schemaVersion) ==
  UNION { [1..n -> LinesAt(schemaVersion)] : n \in 0..MaxLen }

NoHist == [initVersion |-> 0, initLog |-> None]

\* An empty root, or a READY store at version 1 or 2 holding any log.
Init ==
  /\ pc = "idle"
  /\ call = NoCall
  /\ outcome = NoOutcome
  /\ entry = NoEntry
  /\ prev = NoPrev
  /\ barrierLog = None
  /\ written = None
  /\ fileWrite = NoFileWrite
  /\ OthersIdle
  /\ backupFile = None
  /\ \/ /\ schemaStateFile = None
        /\ sessionsFile = None
        /\ hist = NoHist
     \/ \E v \in 1..CURRENT_SCHEMA_VERSION : \E log \in LogsAt(v) :
          /\ schemaStateFile = Some(createReadyState(v))
          /\ sessionsFile = Some(log)
          /\ hist = [NoHist EXCEPT !.initVersion = v, !.initLog = Some(log)]

\* runMigrations calls, each of which a crash may cut off between two disk operations.
NextMigrations ==
  \/ \E t \in TargetVersions : \E i \in BOOLEAN : RunMigrations(t, i)
  \/ EnsureSchemaState
  \/ EnsureSessionsFile
  \/ TargetRejected
  \/ ReadStateReady
  \/ RecoveryFailed
  \/ RecoverCopy
  \/ RecoverWriteReady
  \/ RecoverDeleteBackup
  \/ DowngradeBlocked
  \/ StartLoop
  \/ ReturnResult
  \/ WriteBarrier
  \/ BackupOpen
  \/ BackupWrite
  \/ BackupWriteInterrupted
  \/ MigrateWrite
  \/ MigrateFailed
  \/ Promote
  \/ DeleteBackup
  \/ Crash

\* Every operation, and a crash at any point.
Next ==
  \/ NextMigrations
  \/ CrashInWriteFile
  \/ \E records \in WriteInputs : writeSessionRecords(records)
  \/ compactSessions
  \/ checkSessionIntegrity

\* Every operation, a crash only between two disk operations.
NextAtomic ==
  \/ NextMigrations
  \/ \E records \in WriteInputs : writeSessionRecords(records)
  \/ compactSessions
  \/ checkSessionIntegrity

\* The logs compactSessions is given: up to MaxLen + 1 records over two ids, live
\* (deleted absent or false) or tombstoned, as stored at schemaVersion.
CompactIds == {"session-1", "session-2"}

CompactLines(schemaVersion) ==
  { normalizeRecordForSchema(RecordLine(id, deleted, None), schemaVersion) :
      id \in CompactIds, deleted \in {None, Some(FALSE), Some(TRUE)} }

CompactLogs(schemaVersion) ==
  UNION { [1..n -> CompactLines(schemaVersion)] : n \in 0..(MaxLen + 1) }

\* A READY store at version 1 or 2 holding any of these logs.
InitCompact ==
  /\ pc = "idle"
  /\ call = NoCall
  /\ outcome = NoOutcome
  /\ entry = NoEntry
  /\ prev = NoPrev
  /\ barrierLog = None
  /\ written = None
  /\ fileWrite = NoFileWrite
  /\ OthersIdle
  /\ backupFile = None
  /\ \E v \in 1..CURRENT_SCHEMA_VERSION : \E log \in CompactLogs(v) :
       /\ schemaStateFile = Some(createReadyState(v))
       /\ sessionsFile = Some(log)
       /\ hist = [NoHist EXCEPT !.initVersion = v, !.initLog = Some(log)]

\* compactSessions calls only.
NextCompact == compactSessions

\* The records checkSessionIntegrity is given: id and updatedAt blank or not, the
\* checksum absent, empty, right, or the hash of other content.
IntegrityLines ==
  { [form |-> "record", id |-> id, updatedAt |-> updatedAt, payload |-> PAYLOAD,
     deleted |-> deleted, checksum |-> checksum] :
      id \in {"session-1", " "}, updatedAt \in {UPDATED_AT, ""},
      deleted \in {None, Some(TRUE)},
      checksum \in { None, Some(EMPTY_STRING),
                     Some(computeChecksum("session-1", UPDATED_AT, PAYLOAD, FALSE)),
                     Some(computeChecksum(" ", "", PAYLOAD, TRUE)) } }

IntegrityLogs == UNION { [1..n -> IntegrityLines] : n \in 0..MaxLen }

\* A READY store at version 1 or 2 holding any of these logs.
InitIntegrity ==
  /\ pc = "idle"
  /\ call = NoCall
  /\ outcome = NoOutcome
  /\ entry = NoEntry
  /\ prev = NoPrev
  /\ barrierLog = None
  /\ written = None
  /\ fileWrite = NoFileWrite
  /\ OthersIdle
  /\ backupFile = None
  /\ \E v \in 1..CURRENT_SCHEMA_VERSION : \E log \in IntegrityLogs :
       /\ schemaStateFile = Some(createReadyState(v))
       /\ sessionsFile = Some(log)
       /\ hist = [NoHist EXCEPT !.initVersion = v, !.initLog = Some(log)]

\* checkSessionIntegrity calls only.
NextIntegrity == checkSessionIntegrity

-----------------------------------------------------------------------------
(* The writes of the engine, one file-system call per action               *)

\* A file that exists and holds nothing: what writeFile leaves once it has opened
\* its target for writing.
EmptyFile == Some(<<>>)

File(target) ==
  IF target = "state" THEN schemaStateFile
  ELSE IF target = "sessions" THEN sessionsFile ELSE backupFile

SetFile(target, value) ==
  /\ schemaStateFile' = IF target = "state" THEN value ELSE schemaStateFile
  /\ sessionsFile' = IF target = "sessions" THEN value ELSE sessionsFile
  /\ backupFile' = IF target = "backup" THEN value ELSE backupFile

\* fs writeFile(path, content): the target itself is opened and then written.
writeFile(target, content) ==
  [target |-> target, content |-> content, old |-> File(target), temp |-> None,
   step |-> "open"]

\* writeTextAtomic(path, content): a temporary file is written and renamed over path.
writeTextAtomic(target, content) ==
  [target |-> target, content |-> content, old |-> File(target), temp |-> None,
   step |-> "temp_open"]

writeJsonAtomic_InPlace(target, state) == writeFile(target, Some(state))

writeJsonAtomic(target, state) == writeTextAtomic(target, Some(state))

\* The schema states the engine writes.
EngineStates ==
  { createReadyState(v) : v \in 1..CURRENT_SCHEMA_VERSION }
    \cup { activeState(v) : v \in 1..(CURRENT_SCHEMA_VERSION - 1) }

\* One of the engine's writes begins.
StartStateWrite(state) ==
  /\ fileWrite.step = "idle"
  /\ fileWrite' = writeJsonAtomic("state", state)
  /\ UNCHANGED <<disk, pc, call, outcome, entry, prev, barrierLog, written, hist, others>>

StartSessionsWrite(records) ==
  /\ fileWrite.step = "idle"
  /\ schemaStateFile # None
  /\ fileWrite' = writeTextAtomic("sessions",
       writeSessionsAtomic(NormalizeAll(records, schemaStateFile[1].schemaVersion)))
  /\ UNCHANGED <<disk, pc, call, outcome, entry, prev, barrierLog, written, hist, others>>

\* copyFileAtomic(backup, sessions).
StartRestore ==
  /\ fileWrite.step = "idle"
  /\ backupFile # None
  /\ fileWrite' = writeTextAtomic("sessions", RestoredLog(backupFile))
  /\ UNCHANGED <<disk, pc, call, outcome, entry, prev, barrierLog, written, hist, others>>

\* backupSessions.
StartBackup ==
  /\ fileWrite.step = "idle"
  /\ fileWrite' = writeFile("backup", BackupContent(sessionsFile))
  /\ UNCHANGED <<disk, pc, call, outcome, entry, prev, barrierLog, written, hist, others>>

\* ensureStorageInitialized: the empty session log.
StartEmptyLog ==
  /\ fileWrite.step = "idle"
  /\ sessionsFile = None
  /\ fileWrite' = writeFile("sessions", EmptyFile)
  /\ UNCHANGED <<disk, pc, call, outcome, entry, prev, barrierLog, written, hist, others>>

\* writeFile(tempPath, ...) has opened the temporary file.
TempOpen ==
  /\ fileWrite.step = "temp_open"
  /\ fileWrite' = [fileWrite EXCEPT !.temp = EmptyFile, !.step = "temp_write"]
  /\ UNCHANGED <<disk, pc, call, outcome, entry, prev, barrierLog, written, hist, others>>

\* writeFile(tempPath, content) has written it.
TempWrite ==
  /\ fileWrite.step = "temp_write"
  /\ fileWrite' = [fileWrite EXCEPT !.temp = fileWrite.content, !.step = "rename"]
  /\ UNCHANGED <<disk, pc, call, outcome, entry, prev, barrierLog, written, hist, others>>

\* rename(tempPath, path).
Rename ==
  /\ fileWrite.step = "rename"
  /\ SetFile(fileWrite.target, fileWrite.temp)
  /\ fileWrite' = [fileWrite EXCEPT !.temp = None, !.step = "idle"]
  /\ UNCHANGED <<pc, call, outcome, entry, prev, barrierLog, written, hist, others>>

\* writeFile(path, ...) has opened its target, creating or truncating it.
PlainOpen ==
  /\ fileWrite.step = "open"
  /\ SetFile(fileWrite.target, EmptyFile)
  /\ fileWrite' = [fileWrite EXCEPT !.step = "write"]
  /\ UNCHANGED <<pc, call, outcome, entry, prev, barrierLog, written, hist, others>>

\* writeFile(path, content) has written its target.
PlainWrite ==
  /\ fileWrite.step = "write"
  /\ SetFile(fileWrite.target, fileWrite.content)
  /\ fileWrite' = [fileWrite EXCEPT !.step = "idle"]
  /\ UNCHANGED <<pc, call, outcome, entry, prev, barrierLog, written, hist, others>>

\* The process dies inside a write; the files stay as they are.
CrashInFileWrite ==
  /\ fileWrite.step # "idle"
  /\ fileWrite' = [fileWrite EXCEPT !.step = "idle"]
  /\ UNCHANGED <<disk, pc, call, outcome, entry, prev, barrierLog, written, hist, others>>

\* An empty root, a root holding only its schema state, or a READY store.
InitFiles ==
  /\ pc = "idle"
  /\ call = NoCall
  /\ outcome = NoOutcome
  /\ entry = NoEntry
  /\ prev = NoPrev
  /\ barrierLog = None
  /\ written = None
  /\ fileWrite = NoFileWrite
  /\ OthersIdle
  /\ backupFile = None
  /\ hist = NoHist
  /\ \/ /\ schemaStateFile = None
        /\ sessionsFile = None
     \/ /\ schemaStateFile = Some(createReadyState(CURRENT_SCHEMA_VERSION))
        /\ sessionsFile = None
     \/ \E v \in 1..CURRENT_SCHEMA_VERSION : \E log \in LogsAt(v) :
          /\ schemaStateFile = Some(createReadyState(v))
          /\ sessionsFile = Some(log)

NextFiles ==
  \/ \E state \in EngineStates : StartStateWrite(state)
  \/ \E records \in WriteInputs : StartSessionsWrite(records)
  \/ StartRestore
  \/ StartBackup
  \/ StartEmptyLog
  \/ TempOpen
  \/ TempWrite
  \/ Rename
  \/ PlainOpen
  \/ PlainWrite
  \/ CrashInFileWrite

\* The schemaVersion of the schema-state files runMigrations is given:
\* readSchemaState takes any number, and no transform leads from version 0 to 1.
FoundVersions == 0..CURRENT_SCHEMA_VERSION

\* A READY store whose schema-state file names any of these versions, or an empty root.
InitAnyVersion ==
  /\ pc = "idle"
  /\ call = NoCall
  /\ outcome = NoOutcome
  /\ entry = NoEntry
  /\ prev = NoPrev
  /\ barrierLog = None
  /\ written = None
  /\ fileWrite = NoFileWrite
  /\ OthersIdle
  /\ backupFile = None
  /\ \/ /\ schemaStateFile = None
        /\ sessionsFile = None
        /\ hist = NoHist
     \/ \E v \in FoundVersions : \E log \in LogsAt(v) :
          /\ schemaStateFile = Some(createReadyState(v))
          /\ sessionsFile = Some(log)
          /\ hist = [NoHist EXCEPT !.initVersion = v, !.initLog = Some(log)]

\* ensureStorageInitialized, called on its own.
ensureStorageInitialized ==
  /\ pc = "idle"
  /\ EnsureStorageInitialized
  /\ sessionsFile' = IF sessionsFile = None THEN Some(<<>>) ELSE sessionsFile
  /\ outcome' = OtherOutcome("ensureStorageInitialized", "returned", "", "", None)
  /\ prev' = NoPrev
  /\ UNCHANGED <<backupFile, pc, call, entry, barrierLog, hist, fileWrite, others>>

\* A root in which each of the three files is absent or holds any content the
\* engine writes.
InitAnyRoot ==
  /\ pc = "idle"
  /\ call = NoCall
  /\ outcome = NoOutcome
  /\ entry = NoEntry
  /\ prev = NoPrev
  /\ barrierLog = None
  /\ written = None
  /\ fileWrite = NoFileWrite
  /\ OthersIdle
  /\ hist = NoHist
  /\ schemaStateFile \in {None} \cup { Some(state) : state \in EngineStates }
  /\ sessionsFile \in {None} \cup { Some(log) : log \in LogsAt(1) \cup LogsAt(2) }
  /\ backupFile \in {None} \cup { Some(log) : log \in LogsAt(1) }

NextInitialize == ensureStorageInitialized

-----------------------------------------------------------------------------
(* The storage root: resolveStoragePolicy and getStoragePaths               *)

SESSION_FILE == "sessions.jsonl"
STATE_FILE == "schema-state.json"

\* path.join on the paths the model uses.
Join(dir, name) == dir \o "/" \o name

\* value && value.trim().length > 0, for an optional string.
NonBlank(opt) == opt # None /\ opt[1] # "" /\ ~Blank(opt[1])

resolveStoragePolicy_EnvFirst(explicitDir, env) ==
  IF NonBlank(env.MACHINA_STORAGE_DIR)
    THEN [kind |-> "returned", source |-> "env", rootDir |-> env.MACHINA_STORAGE_DIR[1]]
  ELSE IF NonBlank(explicitDir)
    THEN [kind |-> "returned", source |-> "explicit", rootDir |-> explicitDir[1]]
  ELSE LET home == IF env.HOME # None THEN env.HOME ELSE env.USERPROFILE
       IN IF home = None \/ home[1] = ""
            THEN [kind |-> "threw", code |-> "STORAGE_HOME_MISSING"]
            ELSE [kind |-> "returned", source |-> "default",
                  rootDir |-> Join(Join(home[1], ".machina"), "storage")]

resolveStoragePolicy(explicitDir, env) ==
  IF NonBlank(explicitDir)
    THEN [kind |-> "returned", source |-> "explicit", rootDir |-> explicitDir[1]]
  ELSE IF NonBlank(env.MACHINA_STORAGE_DIR)
    THEN [kind |-> "returned", source |-> "env", rootDir |-> env.MACHINA_STORAGE_DIR[1]]
  ELSE LET home == IF env.HOME # None THEN env.HOME ELSE env.USERPROFILE
       IN IF home = None \/ home[1] = ""
            THEN [kind |-> "threw", code |-> "STORAGE_HOME_MISSING"]
            ELSE [kind |-> "returned", source |-> "default",
                  rootDir |-> Join(Join(home[1], ".machina"), "storage")]

\* getStoragePaths: the policy's root and the three files under it.
StoragePathsOf(explicitDir, env) ==
  LET resolved == resolveStoragePolicy(explicitDir, env)
  IN IF resolved.kind = "threw"
       THEN resolved
       ELSE [kind |-> "returned", source |-> resolved.source, rootDir |-> resolved.rootDir,
             sessionsFile |-> Join(resolved.rootDir, SESSION_FILE),
             schemaStateFile |-> Join(resolved.rootDir, STATE_FILE),
             backupFile |-> Join(resolved.rootDir, BACKUP_FILE)]

\* The arguments and environments getStoragePaths is called with.
ExplicitDirs == {None, Some(""), Some(" "), Some("/explicit")}
EnvDirs == {None, Some(""), Some(" "), Some("/from-env")}
Homes == {None, Some(""), Some("/home/user"), Some("/root")}
UserProfiles == {None, Some("C:/Users/user")}

getStoragePaths(explicitDir, env) ==
  /\ policy' = [called |-> TRUE, explicitDir |-> explicitDir, env |-> env,
                result |-> StoragePathsOf(explicitDir, env)]
  /\ UNCHANGED <<storage, exceptPolicy>>

NextPolicy ==
  \E explicitDir \in ExplicitDirs, dir \in EnvDirs, home \in Homes, profile \in UserProfiles :
    getStoragePaths(explicitDir,
                    [MACHINA_STORAGE_DIR |-> dir, HOME |-> home, USERPROFILE |-> profile])

\* The storage engine idle on an empty root.
StorageIdle ==
  /\ pc = "idle"
  /\ call = NoCall
  /\ outcome = NoOutcome
  /\ entry = NoEntry
  /\ prev = NoPrev
  /\ barrierLog = None
  /\ written = None
  /\ fileWrite = NoFileWrite
  /\ hist = NoHist
  /\ schemaStateFile = None
  /\ sessionsFile = None
  /\ backupFile = None

InitPolicy == StorageIdle /\ OthersIdle

-----------------------------------------------------------------------------
(* ToolRegistry.execute: the policy gate and the audit log                  *)

MIN_IDENTIFIER_LENGTH == 3
MAX_IDENTIFIER_LENGTH == 128

\* Identifiers are sequences of characters; these are the characters of the
\* model that the class [a-zA-Z0-9._:-] holds.
SafeChars == {"a", "b", "o", "p", "t", "1", "-", ".", "_", ":"}

RECURSIVE TrimStart(_)
TrimStart(value) ==
  IF value # <<>> /\ Head(value) = " " THEN TrimStart(Tail(value)) ELSE value

RECURSIVE TrimEnd(_)
TrimEnd(value) ==
  IF value # <<>> /\ value[Len(value)] = " "
    THEN TrimEnd(SubSeq(value, 1, Len(value) - 1))
    ELSE value

Trim(value) == TrimEnd(TrimStart(value))

isSafeAuditIdentifier_UntrimmedLength(value) ==
  /\ Len(value) >= MIN_IDENTIFIER_LENGTH
  /\ Len(value) <= MAX_IDENTIFIER_LENGTH

isSafeAuditIdentifier(value) ==
  LET trimmed == Trim(value)
  IN /\ Len(trimmed) >= MIN_IDENTIFIER_LENGTH
     /\ Len(trimmed) <= MAX_IDENTIFIER_LENGTH
     /\ \A i \in 1..Len(trimmed) : trimmed[i] \in SafeChars

hasValidPrivilegedContext(request) ==
  isSafeAuditIdentifier(request.actor) /\ isSafeAuditIdentifier(request.operationId)

\* The definitions map after createMachinaToolRegistry (the safe tools stand as
\* runtime.ping) and after the registration of a privileged tool whose body throws.
ToolDefinitions ==
  [id \in {"runtime.ping", "storage.write-maintenance-marker", "storage.fail-echo"} |->
     CASE id = "runtime.ping" ->
            [id |-> id, category |-> "runtime", permissionClass |-> "safe", run |-> "ping"]
       [] id = "storage.write-maintenance-marker" ->
            [id |-> id, category |-> "storage", permissionClass |-> "privileged",
             run |-> "write-marker"]
       [] id = "storage.fail-echo" ->
            [id |-> id, category |-> "storage", permissionClass |-> "privileged",
             run |-> "throw"]]

ToolIds == DOMAIN ToolDefinitions \cup {"storage.unknown"}

NoDenial == ""

\* The record appendPrivilegedAuditRecord builds (timestamp and inputKeys left out).
AuditRecord(definition, request, status, decision, denialReason) ==
  [eventType |-> "PRIVILEGED_ACTION", operationId |-> request.operationId,
   actor |-> request.actor, action |-> definition.id, decision |-> decision,
   category |-> definition.category, permissionClass |-> definition.permissionClass,
   status |-> status, denialReason |-> denialReason]

ToolError(name, code) == [name |-> name, code |-> code]

\* sanitizeToolExecutionError: a ToolRuntimeError keeps its code, any other
\* error becomes a plain Error with the name kept and no code.
sanitizeToolExecutionError(error) ==
  IF error.name = "ToolRuntimeError" THEN error ELSE ToolError(error.name, "")

\* ensureStorageInitialized(request.storageDir, request.env) resolves a root.
RootResolves(request) ==
  resolveStoragePolicy(request.storageDir, request.env).kind = "returned"

StorageHomeMissing == ToolError("MachinaStorageError", "STORAGE_HOME_MISSING")

\* ensureStorageInitialized on the root, from within a tool call.
InitializeRoot ==
  /\ EnsureStorageInitialized
  /\ sessionsFile' = IF sessionsFile = None THEN Some(<<>>) ELSE sessionsFile
  /\ UNCHANGED <<backupFile, pc, call, outcome, entry, prev, barrierLog, hist, fileWrite>>

ToolThrows(error) ==
  [tools EXCEPT !.pc = "idle",
                !.result = [kind |-> "threw", name |-> error.name, code |-> error.code,
                            auditRecord |-> None]]

\* appendPrivilegedAuditRecord: the root is initialized and one line is
\* appended to the audit log; nothing is appended when the root does not resolve.
AppendAudit(t, record) == [t EXCEPT !.auditLog = Append(@, record)]

\* The requests execute is called with; every root that resolves is the one root.
EmptyEnv == [MACHINA_STORAGE_DIR |-> None, HOME |-> None, USERPROFILE |-> None]
ToolEnvs == {EmptyEnv, [EmptyEnv EXCEPT !.MACHINA_STORAGE_DIR = Some("/data")]}
ToolStorageDirs == {None, Some("/data")}
Actors == {<<"b", "o", "t">>, <<" ", "b", "o", "t", " ">>, <<"b", " ", "t">>, <<>>}
OperationIds == {<<"o", "p", "-", "1">>, <<"o", "p">>}

ToolRequests ==
  [actor : Actors, operationId : OperationIds,
   permissionState : [privilegedApproved : BOOLEAN],
   storageDir : ToolStorageDirs, env : ToolEnvs]

\* execute(toolId, request): the lookup and the policy gate.
Execute_ApprovalOnly(toolId, request) ==
  /\ tools.pc = "idle"
  /\ Len(tools.auditLog) < MaxAudit
  /\ LET started == [tools EXCEPT !.toolId = toolId, !.request = Some(request),
                                  !.denial = NoDenial, !.ranBody = FALSE, !.caught = None,
                                  !.auditBefore = Len(tools.auditLog),
                                  !.result = NoToolResult]
     IN IF toolId \notin DOMAIN ToolDefinitions
          THEN tools' = [started EXCEPT
                 !.result = [kind |-> "threw", name |-> "ToolRuntimeError",
                             code |-> "TOOL_NOT_FOUND", auditRecord |-> None]]
        ELSE IF /\ ToolDefinitions[toolId].permissionClass = "privileged"
                /\ ~request.permissionState.privilegedApproved
          THEN tools' = [started EXCEPT !.pc = "deny",
                                        !.denial = "privileged-approval-required"]
        ELSE tools' = [started EXCEPT !.pc = "run"]
  /\ UNCHANGED <<storage, exceptTools>>

Execute(toolId, request) ==
  /\ tools.pc = "idle"
  /\ Len(tools.auditLog) < MaxAudit
  /\ LET started == [tools EXCEPT !.toolId = toolId, !.request = Some(request),
                                  !.denial = NoDenial, !.ranBody = FALSE, !.caught = None,
                                  !.auditBefore = Len(tools.auditLog),
                                  !.result = NoToolResult]
     IN IF toolId \notin DOMAIN ToolDefinitions
          THEN tools' = [started EXCEPT
                 !.result = [kind |-> "threw", name |-> "ToolRuntimeError",
                             code |-> "TOOL_NOT_FOUND", auditRecord |-> None]]
        ELSE IF /\ ToolDefinitions[toolId].permissionClass = "privileged"
                /\ ~hasValidPrivilegedContext(request)
          THEN tools' = [started EXCEPT !.pc = "deny",
                                        !.denial = "invalid-privileged-context"]
        ELSE IF /\ ToolDefinitions[toolId].permissionClass = "privileged"
                /\ ~request.permissionState.privilegedApproved
          THEN tools' = [started EXCEPT !.pc = "deny",
                                        !.denial = "privileged-approval-required"]
        ELSE tools' = [started EXCEPT !.pc = "run"]
  /\ UNCHANGED <<storage, exceptTools>>

\* await appendPrivilegedAuditRecord(..., "blocked", "denied", reason)
AppendDenied ==
  /\ tools.pc = "deny"
  /\ IF RootResolves(tools.request[1])
       THEN /\ InitializeRoot
            /\ tools' = [AppendAudit(tools,
                            AuditRecord(ToolDefinitions[tools.toolId], tools.request[1],
                                        "blocked", "denied", tools.denial))
                          EXCEPT !.pc = "throw_policy"]
       ELSE /\ tools' = ToolThrows(StorageHomeMissing)
            /\ UNCHANGED storage
  /\ UNCHANGED exceptTools

\* throw new ToolPolicyError(...)
ThrowPolicyError ==
  /\ tools.pc = "throw_policy"
  /\ tools' = ToolThrows(ToolError("ToolPolicyError",
                 IF tools.denial = "invalid-privileged-context"
                   THEN "POLICY_INVALID_CONTEXT"
                   ELSE "POLICY_DENIED"))
  /\ UNCHANGED <<storage, exceptTools>>

\* Where execute goes when the body has returned or thrown.
AfterBody(t, error) ==
  IF ToolDefinitions[t.toolId].permissionClass = "privileged"
    THEN IF error = None
           THEN [t EXCEPT !.pc = "audit_succeeded"]
           ELSE [t EXCEPT !.pc = "audit_failed", !.caught = error]
    ELSE IF error = None
           THEN [t EXCEPT !.pc = "idle",
                          !.result = [kind |-> "returned", name |-> "", code |-> "",
                                      auditRecord |-> None]]
           ELSE [t EXCEPT !.pc = "idle",
                          !.result = [kind |-> "threw",
                                      name |-> sanitizeToolExecutionError(error[1]).name,
                                      code |-> sanitizeToolExecutionError(error[1]).code,
                                      auditRecord |-> None]]

\* await definition.run(request)
RunBody ==
  /\ tools.pc = "run"
  /\ LET ran == [tools EXCEPT !.ranBody = TRUE]
         run == ToolDefinitions[tools.toolId].run
     IN CASE run = "ping" ->
               /\ tools' = AfterBody(ran, None)
               /\ UNCHANGED storage
          [] run = "throw" ->
               /\ tools' = AfterBody(ran, Some(ToolError("ToolRuntimeError", "SIM_FAIL")))
               /\ UNCHANGED storage
          [] run = "write-marker" ->
               IF RootResolves(tools.request[1])
                 THEN /\ InitializeRoot
                      /\ tools' = AfterBody([ran EXCEPT !.markerFile = Some("maintenance")],
                                             None)
                 ELSE /\ tools' = AfterBody(ran, Some(StorageHomeMissing))
                      /\ UNCHANGED storage
  /\ UNCHANGED exceptTools

\* auditRecord = await appendPrivilegedAuditRecord(..., "succeeded", "approved"),
\* inside the try block: an error it throws is caught like an error of the body.
AppendSucceeded ==
  /\ tools.pc = "audit_succeeded"
  /\ IF RootResolves(tools.request[1])
       THEN LET record == AuditRecord(ToolDefinitions[tools.toolId], tools.request[1],
                                      "succeeded", "approved", NoDenial)
            IN /\ InitializeRoot
               /\ tools' = [AppendAudit(tools, record) EXCEPT
                              !.pc = "idle",
                              !.result = [kind |-> "returned", name |-> "", code |-> "",
                                          auditRecord |-> Some(record)]]
       ELSE /\ tools' = [tools EXCEPT !.pc = "audit_failed",
                                      !.caught = Some(StorageHomeMissing)]
            /\ UNCHANGED storage
  /\ UNCHANGED exceptTools

\* auditRecord = await appendPrivilegedAuditRecord(..., "failed", "approved"),
\* inside the catch block: an error it throws leaves execute as it is.
AppendFailed ==
  /\ tools.pc = "audit_failed"
  /\ IF RootResolves(tools.request[1])
       THEN LET record == AuditRecord(ToolDefinitions[tools.toolId], tools.request[1],
                                      "failed", "approved", NoDenial)
            IN /\ InitializeRoot
               /\ tools' = AppendAudit(ToolThrows(sanitizeToolExecutionError(tools.caught[1])),
                                       record)
       ELSE /\ tools' = ToolThrows(StorageHomeMissing)
            /\ UNCHANGED storage
  /\ UNCHANGED exceptTools

NextTools ==
  \/ \E toolId \in ToolIds, request \in ToolRequests : Execute(toolId, request)
  \/ AppendDenied
  \/ ThrowPolicyError
  \/ RunBody
  \/ AppendSucceeded
  \/ AppendFailed

InitTools == StorageIdle /\ OthersIdle

-----------------------------------------------------------------------------
(* ChannelRegistry: connect, status, disconnect and the channels-state file *)

ChannelIds == {"ops-room", "alerts-room"}
ConnectorIds == {"matrix", "teams"}
Configs == {"valid", "invalid"}

\* What connector.connect(config) returns.
DETAILS ==
  [accountId |-> "@machina:example.org", endpoint |-> "matrix://example.org",
   connectedAt |-> "connected-at"]

\* What connector.connect(config) throws: a ChannelRuntimeError, or another
\* Error whose message carries a secret.
ConnectorErrors ==
  { [name |-> "ChannelRuntimeError", code |-> "INVALID_CREDENTIALS",
     message |-> "Authentication failed for matrix"],
    [name |-> "Error", code |-> "", message |-> "upstream secret=super-secret-token"] }

sanitizeErrorMessage(message) ==
  IF message = "upstream secret=super-secret-token"
    THEN "upstream secret=[REDACTED]"
    ELSE message

normalizeChannelError(error) ==
  IF error.name = "ChannelRuntimeError"
    THEN [code |-> error.code, message |-> sanitizeErrorMessage(error.message)]
    ELSE [code |-> "CHANNEL_CONNECT_FAILED", message |-> sanitizeErrorMessage(error.message)]

PersistedChannelState(connectorId, status, details, updatedAt, error) ==
  [connectorId |-> connectorId, status |-> status, details |-> details,
   updatedAt |-> updatedAt, error |-> error]

toStatus(channelId, state) ==
  [channelId |-> channelId, connectorId |-> Some(state.connectorId), status |-> state.status,
   details |-> state.details, updatedAt |-> Some(state.updatedAt), error |-> state.error]

\* The status of a channel the registry does not know.
UnknownStatus(channelId) ==
  [channelId |-> channelId, connectorId |-> None, status |-> "disconnected",
   details |-> None, updatedAt |-> None, error |-> None]

\* this.channelState.set(channelId, state)
SetChannel(map, channelId, state) ==
  [c \in DOMAIN map \cup {channelId} |-> IF c = channelId THEN state ELSE map[c]]

\* readStateFile: the channels of the file, none when the file is absent.
readStateFile(file) == IF file = None THEN EmptyChannels ELSE file[1].channels

\* persist: the payload written to a temporary file that is renamed over the file.
PersistedFile(map) == Some([schemaVersion |-> 1, channels |-> map])

\* ensureLoaded: the map of the registry once the file has been read into it.
Loaded(ch) ==
  IF ch.loaded
    THEN ch.channelState
    ELSE [c \in DOMAIN readStateFile(ch.file) \cup DOMAIN ch.channelState |->
            IF c \in DOMAIN readStateFile(ch.file)
              THEN readStateFile(ch.file)[c]
              ELSE ch.channelState[c]]

\* process.env of the model names no storage directory and no home.
ChannelRootResolves(ch) == resolveStoragePolicy(ch.storageDir, EmptyEnv).kind = "returned"

ChannelReturns(ch, status) ==
  LET result == [kind |-> "returned", code |-> "", message |-> "", status |-> Some(status)]
  IN [ch EXCEPT !.pc = "idle", !.result = result]

ChannelThrows(ch, code, message) ==
  LET result == [kind |-> "threw", code |-> code, message |-> message, status |-> None]
  IN [ch EXCEPT !.pc = "idle", !.result = result]

\* The call that ended last, kept to compare the next call with.
LastEnded(ch) ==
  IF ch.pc = "idle" /\ ch.op.kind # "none"
    THEN [kind |-> ch.op.kind, channelId |-> ch.op.channelId, result |-> ch.result]
    ELSE ch.previous

\* A call enters: ensureLoaded reads the file once per registry.
ChannelCallStarts(kind, channelId, connectorId, config) ==
  [channels EXCEPT
     !.op = [kind |-> kind, channelId |-> channelId, connectorId |-> connectorId,
             config |-> config],
     !.connectorCalled = FALSE,
     !.result = NoChannelResult,
     !.previous = LastEnded(channels),
     !.before = [channelState |-> Loaded(channels), file |-> channels.file],
     !.loaded = TRUE,
     !.channelState = Loaded(channels)]

ChannelRootMissing(kind, channelId, connectorId, config) ==
  ChannelThrows([channels EXCEPT
                   !.op = [kind |-> kind, channelId |-> channelId,
                           connectorId |-> connectorId, config |-> config],
                   !.connectorCalled = FALSE,
                   !.previous = LastEnded(channels),
                   !.before = [channelState |-> channels.channelState,
                               file |-> channels.file]],
                "STORAGE_HOME_MISSING",
                "Unable to resolve default storage directory without HOME")

\* new ChannelRegistry({ storageDir }) and the registration of its connectors:
\* the process starts again on the same root.
NewChannelRegistry(storageDir, connectors) ==
  /\ channels' = [NoChannels EXCEPT !.storageDir = storageDir, !.connectors = connectors,
                                    !.file = channels.file, !.clock = channels.clock,
                                    !.previous = LastEnded(channels)]
  /\ UNCHANGED <<storage, exceptChannels>>

\* connect(input), up to the call of the connector.
ChannelConnect(channelId, connectorId, config) ==
  /\ channels.pc = "idle"
  /\ channels.clock < MaxClock
  /\ IF ~ChannelRootResolves(channels)
       THEN /\ channels' = ChannelRootMissing("connect", channelId, connectorId, config)
            /\ UNCHANGED storage
       ELSE /\ InitializeRoot
            /\ LET started == ChannelCallStarts("connect", channelId, connectorId, config)
               IN IF connectorId \notin channels.connectors
                    THEN channels' = ChannelThrows(started, "CONNECTOR_NOT_FOUND",
                                                   "Connector not found")
                  ELSE IF config = "invalid"
                    THEN channels' = ChannelThrows(started, "CONFIG_VALIDATION_ERROR",
                                                   "Invalid config")
                  ELSE channels' = [started EXCEPT !.pc = "connecting"]
  /\ UNCHANGED exceptChannels

\* connector.connect returns: the channel is set connected in the map.
ConnectorConnects ==
  /\ channels.pc = "connecting"
  /\ channels' = [channels EXCEPT
       !.pc = "persist",
       !.connectorCalled = TRUE,
       !.clock = @ + 1,
       !.channelState = SetChannel(@, channels.op.channelId,
                          PersistedChannelState(channels.op.connectorId, "connected",
                                                Some(DETAILS), channels.clock + 1, None))]
  /\ UNCHANGED <<storage, exceptChannels>>

\* connector.connect throws: the channel is set disconnected, with the error.
ConnectorFails(error) ==
  /\ channels.pc = "connecting"
  /\ channels' = [channels EXCEPT
       !.pc = "persist",
       !.connectorCalled = TRUE,
       !.clock = @ + 1,
       !.channelState = SetChannel(@, channels.op.channelId,
                          PersistedChannelState(channels.op.connectorId, "disconnected",
                                                None, channels.clock + 1,
                                                Some(normalizeChannelError(error))))]
  /\ UNCHANGED <<storage, exceptChannels>>

\* How the call ends once the file is written.
AfterPersist(ch) ==
  LET state == ch.channelState[ch.op.channelId]
  IN IF state.error = None
       THEN ChannelReturns(ch, toStatus(ch.op.channelId, state))
       ELSE ChannelThrows(ch, state.error[1].code, state.error[1].message)

Persist_OnlyWithoutError ==
  /\ channels.pc = "persist"
  /\ InitializeRoot
  /\ channels' = AfterPersist(
       IF channels.channelState[channels.op.channelId].error = None
         THEN [channels EXCEPT !.file = PersistedFile(channels.channelState)]
         ELSE channels)
  /\ UNCHANGED exceptChannels

\* await this.persist(), and the return or throw that follows it.
Persist ==
  /\ channels.pc = "persist"
  /\ InitializeRoot
  /\ channels' = AfterPersist([channels EXCEPT !.file = PersistedFile(channels.channelState)])
  /\ UNCHANGED exceptChannels

\* status(channelId)
ChannelStatus(channelId) ==
  /\ channels.pc = "idle"
  /\ IF ~ChannelRootResolves(channels)
       THEN /\ channels' = ChannelRootMissing("status", channelId, "", "")
            /\ UNCHANGED storage
       ELSE /\ InitializeRoot
            /\ LET started == ChannelCallStarts("status", channelId, "", "")
               IN channels' = ChannelReturns(started,
                    IF channelId \in DOMAIN started.channelState
                      THEN toStatus(channelId, started.channelState[channelId])
                      ELSE UnknownStatus(channelId))
  /\ UNCHANGED exceptChannels

ChannelDisconnect_AlwaysThroughConnector(channelId) ==
  /\ channels.pc = "idle"
  /\ IF ~ChannelRootResolves(channels)
       THEN /\ channels' = ChannelRootMissing("disconnect", channelId, "", "")
            /\ UNCHANGED storage
       ELSE /\ InitializeRoot
            /\ LET started == ChannelCallStarts("disconnect", channelId, "", "")
               IN IF channelId \notin DOMAIN started.channelState
                    THEN channels' = ChannelReturns(started, UnknownStatus(channelId))
                  ELSE IF started.channelState[channelId].connectorId \notin channels.connectors
                    THEN channels' = ChannelThrows(started, "CONNECTOR_NOT_FOUND",
                                                   "Connector not found")
                  ELSE channels' = [started EXCEPT !.pc = "disconnecting"]
  /\ UNCHANGED exceptChannels

\* disconnect(channelId), up to the call of the connector.
ChannelDisconnect(channelId) ==
  /\ channels.pc = "idle"
  /\ IF ~ChannelRootResolves(channels)
       THEN /\ channels' = ChannelRootMissing("disconnect", channelId, "", "")
            /\ UNCHANGED storage
       ELSE /\ InitializeRoot
            /\ LET started == ChannelCallStarts("disconnect", channelId, "", "")
               IN IF channelId \notin DOMAIN started.channelState
                    THEN channels' = ChannelReturns(started, UnknownStatus(channelId))
                  ELSE IF started.channelState[channelId].status = "disconnected"
                    THEN channels' = ChannelReturns(started,
                                       toStatus(channelId, started.channelState[channelId]))
                  ELSE IF started.channelState[channelId].connectorId \notin channels.connectors
                    THEN channels' = ChannelThrows(started, "CONNECTOR_NOT_FOUND",
                                                   "Connector not found")
                  ELSE channels' = [started EXCEPT !.pc = "disconnecting"]
  /\ UNCHANGED exceptChannels

\* connector.disconnect returns: the channel is set disconnected in the map.
ConnectorDisconnects ==
  /\ channels.pc = "disconnecting"
  /\ channels.clock < MaxClock
  /\ channels' = [channels EXCEPT
       !.pc = "persist",
       !.connectorCalled = TRUE,
       !.clock = @ + 1,
       !.channelState = SetChannel(@, channels.op.channelId,
                          PersistedChannelState(
                            channels.channelState[channels.op.channelId].connectorId,
                            "disconnected", None, channels.clock + 1, None))]
  /\ UNCHANGED <<storage, exceptChannels>>

\* connector.disconnect throws: the error leaves disconnect as it is.
ConnectorDisconnectFails ==
  /\ channels.pc = "disconnecting"
  /\ channels' = ChannelThrows([channels EXCEPT !.connectorCalled = TRUE],
                               "DISCONNECT_FAILED", "disconnect failed")
  /\ UNCHANGED <<storage, exceptChannels>>

NextChannels ==
  \/ \E storageDir \in {None, Some("/data")}, connectors \in {{"matrix"}, {}} :
       NewChannelRegistry(storageDir, connectors)
  \/ \E channelId \in ChannelIds, connectorId \in ConnectorIds, config \in Configs :
       ChannelConnect(channelId, connectorId, config)
  \/ ConnectorConnects
  \/ \E error \in ConnectorErrors : ConnectorFails(error)
  \/ Persist
  \/ \E channelId \in ChannelIds : ChannelStatus(channelId)
  \/ \E channelId \in ChannelIds : ChannelDisconnect(channelId)
  \/ ConnectorDisconnects
  \/ ConnectorDisconnectFails

InitChannels == StorageIdle /\ OthersIdle

-----------------------------------------------------------------------------
(* WorkflowEngine.run: the race with the cancel timer and the cleanups      *)

\* The definitions registered by createWorkflowEngine that the model follows,
\* a definition registered by a caller, and a name that is not registered.
WorkflowNames == {"storage.migrate", "long-running", "custom", "unknown"}
RegisteredWorkflows == {"storage.migrate", "long-running", "custom"}

\* options.cancelAfterMs: absent, or a number; the timer is set for a number >= 0.
CancelAfterMs == {None, Some(0), Some(-1)}

TimerSet(cancelAfterMs) == cancelAfterMs # None /\ cancelAfterMs[1] >= 0

\* A cleanup the body registers: it completes, or it throws.
CleanupKinds == {"completes", "throws"}

\* The body of storage.migrate is the runMigrations call of the storage engine;
\* its promise is settled once that call has ended.
MigrateBodyEnded ==
  /\ workflow.workflowName = "storage.migrate"
  /\ workflow.body = "running"
  /\ pc = "idle"

\* The race is decided: the finally block starts cleanup(), whose loop index
\* is taken from the cleanups registered by now.
RaceSettles(w, body, status) ==
  [w EXCEPT !.body = body, !.status = status, !.timer = FALSE, !.pc = "cleanup",
            !.index = Len(w.cleanups)]

\* The body settles: the race if it is still open, otherwise nothing but the body.
BodySettles(w, body, status) ==
  IF w.pc = "racing" THEN RaceSettles(w, body, status) ELSE [w EXCEPT !.body = body]

StartedWorkflow(name, cancelAfterMs, cleanups) ==
  [NoWorkflow EXCEPT !.pc = "racing", !.workflowName = name,
                     !.timer = TimerSet(cancelAfterMs), !.body = "running",
                     !.cleanups = cleanups]

\* run(workflowName, options): the body is started and the race begins.
WorkflowRun(name, cancelAfterMs) ==
  /\ workflow.pc = "idle"
  /\ workflow.body # "running"
  /\ pc = "idle"
  /\ IF name \notin RegisteredWorkflows
       THEN /\ workflow' = [NoWorkflow EXCEPT !.workflowName = name,
                                               !.result.kind = "threw"]
            /\ UNCHANGED storage
     ELSE IF name = "storage.migrate"
       THEN /\ workflow' = StartedWorkflow(name, cancelAfterMs, <<>>)
            /\ EnterRunMigrations(CURRENT_SCHEMA_VERSION, FALSE)
     ELSE IF name = "long-running"
       THEN /\ workflow' = StartedWorkflow(name, cancelAfterMs,
                                           <<[id |-> 1, kind |-> "completes"]>>)
            /\ UNCHANGED storage
     ELSE /\ workflow' = StartedWorkflow(name, cancelAfterMs, <<>>)
          /\ UNCHANGED storage
  /\ UNCHANGED exceptWorkflow

\* The timer set for cancelAfterMs fires: controller.abort, waitForAbort
\* rejects, and run goes through catch into finally. The body is not touched.
TimerFires ==
  /\ workflow.pc = "racing"
  /\ workflow.timer
  /\ ~MigrateBodyEnded
  /\ workflow' = [RaceSettles(workflow, "running", "cancelled") EXCEPT !.aborted = TRUE]
  /\ UNCHANGED <<storage, exceptWorkflow>>

\* The runMigrations call of storage.migrate has returned or thrown.
MigrateBodySettles ==
  /\ MigrateBodyEnded
  /\ workflow' = IF outcome.kind = "returned"
                   THEN BodySettles(workflow, "returned", "completed")
                   ELSE BodySettles(workflow, "threw", "failed")
  /\ UNCHANGED <<storage, exceptWorkflow>>

\* context.addCleanup(entry), called by the body of a caller's workflow.
BodyAddsCleanup(kind) ==
  /\ workflow.workflowName = "custom"
  /\ workflow.body = "running"
  /\ Len(workflow.cleanups) < MaxCleanups
  /\ workflow' = [workflow EXCEPT
                    !.cleanups = Append(@, [id |-> Len(@) + 1, kind |-> kind])]
  /\ UNCHANGED <<storage, exceptWorkflow>>

\* The body of a caller's workflow returns.
BodyReturns ==
  /\ workflow.workflowName = "custom"
  /\ workflow.body = "running"
  /\ workflow' = BodySettles(workflow, "returned", "completed")
  /\ UNCHANGED <<storage, exceptWorkflow>>

\* The body of a caller's workflow throws an error of its own.
BodyThrows ==
  /\ workflow.workflowName = "custom"
  /\ workflow.body = "running"
  /\ ~workflow.aborted
  /\ workflow' = BodySettles(workflow, "threw", "failed")
  /\ UNCHANGED <<storage, exceptWorkflow>>

\* throwIfAborted or sleepWithSignal rejects in a body that watches the signal.
BodyObservesAbort ==
  /\ workflow.workflowName \in {"long-running", "custom"}
  /\ workflow.body = "running"
  /\ workflow.aborted
  /\ workflow' = [workflow EXCEPT !.body = "aborted"]
  /\ UNCHANGED <<storage, exceptWorkflow>>

WorkflowEnds(w, kind) ==
  [w EXCEPT !.pc = "idle",
            !.result = [kind |-> kind, status |-> w.status,
                        hasResult |-> (w.status = "completed"), logStatus |-> w.status,
                        registered |-> w.cleanups, completed |-> w.ran]]

\* await cleanups[index](): one cleanup is run; an error it throws leaves run.
RunCleanup ==
  /\ workflow.pc = "cleanup"
  /\ workflow.index > 0
  /\ LET entry_ == workflow.cleanups[workflow.index]
     IN IF entry_.kind = "completes"
          THEN workflow' = [workflow EXCEPT !.ran = Append(@, entry_.id), !.index = @ - 1]
          ELSE workflow' = WorkflowEnds(workflow, "threw")
  /\ UNCHANGED <<storage, exceptWorkflow>>

\* The loop is over: the log entry is built and run returns.
WorkflowReturns ==
  /\ workflow.pc = "cleanup"
  /\ workflow.index = 0
  /\ workflow' = WorkflowEnds(workflow, "returned")
  /\ UNCHANGED <<storage, exceptWorkflow>>

\* The steps of runMigrations, as the body of storage.migrate takes them.
MigrateBodySteps ==
  \/ EnsureSchemaState
  \/ EnsureSessionsFile
  \/ ReadStateReady
  \/ RecoverCopy
  \/ RecoverWriteReady
  \/ RecoverDeleteBackup
  \/ StartLoop
  \/ ReturnResult
  \/ WriteBarrier
  \/ BackupOpen
  \/ BackupWrite
  \/ MigrateWrite
  \/ MigrateFailed
  \/ Promote
  \/ DeleteBackup

NextWorkflow ==
  \/ \E name \in WorkflowNames, cancelAfterMs \in CancelAfterMs : WorkflowRun(name, cancelAfterMs)
  \/ TimerFires
  \/ MigrateBodySteps
  \/ MigrateBodySettles
  \/ \E kind \in CleanupKinds : BodyAddsCleanup(kind)
  \/ BodyReturns
  \/ BodyThrows
  \/ BodyObservesAbort
  \/ RunCleanup
  \/ WorkflowReturns

\* A READY store at version 1 holding any log, and no workflow run yet.
InitWorkflow ==
  /\ pc = "idle"
  /\ call = NoCall
  /\ outcome = NoOutcome
  /\ entry = NoEntry
  /\ prev = NoPrev
  /\ barrierLog = None
  /\ written = None
  /\ fileWrite = NoFileWrite
  /\ OthersIdle
  /\ backupFile = None
  /\ \E log \in LogsAt(1) :
       /\ schemaStateFile = Some(createReadyState(1))
       /\ sessionsFile = Some(log)
       /\ hist = [NoHist EXCEPT !.initVersion = 1, !.initLog = Some(log)]

Spec == Init /\ [][Next]_vars

SpecPolicy == InitPolicy /\ [][NextPolicy]_vars

SpecTools == InitTools /\ [][NextTools]_vars

SpecChannels == InitChannels /\ [][NextChannels]_vars

SpecWorkflow == InitWorkflow /\ [][NextWorkflow]_vars

SpecInitialize == InitAnyRoot /\ [][NextInitialize]_vars

SpecAnyVersion == InitAnyVersion /\ [][NextMigrations]_vars

SpecFiles == InitFiles /\ [][NextFiles]_vars

SpecIntegrity == InitIntegrity /\ [][NextIntegrity]_vars

SpecCompact == InitCompact /\ [][NextCompact]_vars

SpecAtomic == Init /\ [][NextAtomic]_vars

SpecMigrations == Init /\ [][NextMigrations]_vars

\* An empty root, or a READY store at version 1 whose log holds records as
\* version 1 writes them or records that carry the version 2 checksum already.
InitTransformed ==
  /\ pc = "idle"
  /\ call = NoCall
  /\ outcome = NoOutcome
  /\ entry = NoEntry
  /\ prev = NoPrev
  /\ barrierLog = None
  /\ written = None
  /\ fileWrite = NoFileWrite
  /\ OthersIdle
  /\ backupFile = None
  /\ \/ /\ schemaStateFile = None
        /\ sessionsFile = None
        /\ hist = NoHist
     \/ \E log \in LogsAt(1) \cup LogsAt(2) :
          /\ schemaStateFile = Some(createReadyState(1))
          /\ sessionsFile = Some(log)
          /\ hist = [NoHist EXCEPT !.initVersion = 1, !.initLog = Some(log)]

SpecTransformed == InitTransformed /\ [][NextMigrations]_vars

-----------------------------------------------------------------------------
(* Properties                                                               *)

\* The last call was a runMigrations call that ran to its end (returned or threw).
MigrationsEnded ==
  /\ pc = "idle"
  /\ outcome.op = "runMigrations"
  /\ outcome.kind \in {"returned", "threw"}

\* C1: the runMigrations call (default options) that follows a call failed by the
\* injected interruption returns migrated, recovered, applied = [v1-to-v2], and
\* leaves the log and the schema state as one uninterrupted run from the store
\* the interrupted call found would have left them. The store's log is valid.
C1_RecoversAfterInterruption ==
  ( /\ MigrationsEnded
    /\ outcome.afterInterrupted
    /\ outcome.targetVersion = CURRENT_SCHEMA_VERSION
    /\ ~outcome.interrupt
    /\ outcome.entryParses )
  => /\ outcome.kind = "returned"
     /\ outcome.status = "migrated"
     /\ outcome.recovered
     /\ outcome.applied = <<"v1-to-v2">>
     /\ sessionsFile = outcome.expected[1].log
     /\ schemaStateFile = outcome.expected[1].state
     /\ backupFile = outcome.expected[1].backup

C1_Witness ==
  /\ MigrationsEnded
  /\ outcome.afterInterrupted
  /\ outcome.status = "migrated"
  /\ outcome.recovered
  /\ sessionsFile # None
  /\ Len(sessionsFile[1]) > 0

\* The initial log normalized for schemaVersion; a log that does not parse has
\* no normal form and stays as it is.
InitLogAt(schemaVersion) ==
  IF ParseOk(hist.initLog)
    THEN Some(NormalizeAll(readSessionRecords(hist.initLog), schemaVersion))
    ELSE hist.initLog

OnDiskReady == schemaStateFile # None /\ schemaStateFile[1].status = "ready"

C3_NoBackupValidLogRecovers ==
  ( /\ MigrationsEnded
    /\ outcome.entryStatus = "migrating"
    /\ ~outcome.entryBackupUsable
    /\ outcome.entryParses
    /\ outcome.targetVersion = CURRENT_SCHEMA_VERSION
    /\ ~outcome.interrupt )
  => /\ outcome.kind = "returned"
     /\ outcome.status = "migrated"
     /\ outcome.recovered
     /\ OnDiskReady

\* C4: a call entered with status MIGRATING, no usable backup and a log that does
\* not parse throws MIGRATION_RECOVERY_FAILED with the message of the invalid
\* session data. (The code's message speaks of the missing backup file.)
C4_NoBackupInvalidLogMessage ==
  ( /\ MigrationsEnded
    /\ outcome.entryStatus = "migrating"
    /\ ~outcome.entryBackupUsable
    /\ ~outcome.entryParses
    /\ ~TargetUnsupported(outcome.targetVersion) )
  => /\ outcome.kind = "threw"
     /\ outcome.code = "MIGRATION_RECOVERY_FAILED"
     /\ outcome.message =
          "Interrupted migration cannot recover without backup because session data is invalid"

\* C5: the step that throws MIGRATION_RECOVERY_FAILED leaves the three files as
\* they were when the call was entered.
C5_RecoveryFailedLeavesDisk ==
  [][ (pc # "idle" /\ pc' = "idle" /\ outcome'.code = "MIGRATION_RECOVERY_FAILED")
      => disk' = <<entry.state, entry.log, entry.backup>> ]_vars

C5_Witness ==
  /\ MigrationsEnded
  /\ outcome.code = "MIGRATION_RECOVERY_FAILED"
  /\ sessionsFile # None
  /\ Len(sessionsFile[1]) > 0

\* C6: when recovery has restored the log from the backup, the backup holds the
\* log as it was when the MIGRATING state on disk was written. (Fails: a backup
\* left behind by an earlier recovery is restored over later writes.)
C6_BackupIsBarrierLog ==
  pc = "recover_ready" => backupFile = barrierLog

\* C7: in a call entered with status MIGRATING and the backup present, once
\* recovery is over the log is the backup's content, the state is READY at the
\* recorded version and the backup is gone; and no step starts before that.
C7_RecoveryBeforeSteps ==
  /\ (pc = "check" /\ call.recovered)
     => /\ sessionsFile = Some(FileLines(entry.backup))
        /\ schemaStateFile[1].status = "ready"
        /\ schemaStateFile[1].schemaVersion = entry.state[1].schemaVersion
        /\ backupFile = None
  /\ ( /\ EntryStatus(entry) = "migrating"
       /\ pc \in {"loop", "backup_open", "backup_write", "migrate", "promote", "delete_backup"} )
     => call.recovered

C7_Witness ==
  /\ pc = "backup_open"
  /\ call.recovered
  /\ entry.backup # None
  /\ Len(entry.backup[1]) > 0

StepFailureMessages(migrationId) ==
  { FailedMessage(migrationId,
      "Simulated interruption after migration state write for " \o migrationId) }
  \cup { FailedMessage(migrationId,
           "Failed to parse session record at line " \o ToString(n) \o ": invalid JSON")
         : n \in 1..(MaxLen + 1) }

C10_WrittenStateWellFormed ==
  written # None
  => LET s == written[1]
     IN /\ s.status = "ready"
           => (s.targetVersion = None /\ s.migrationId = None /\ s.backupPath = None)
        /\ s.status = "migrating"
           => /\ s.targetVersion = Some(s.schemaVersion + 1)
              /\ s.migrationId =
                   Some("v" \o ToString(s.schemaVersion) \o "-to-v" \o ToString(s.targetVersion[1]))

C10_Witness ==
  /\ written # None
  /\ written[1].status = "migrating"

\* C11: right after a runMigrations call has returned, the disk says READY and no
\* backup file exists. (A backup left by an earlier crash between the READY write
\* and the backup delete survives an up-to-date call.)
C11_ReturnedMeansReadyNoBackup ==
  (MigrationsEnded /\ outcome.kind = "returned")
  => (OnDiskReady /\ backupFile = None)

\* The places of runMigrations inside the loop of steps.
StepPcs == {"loop", "backup_open", "backup_write", "migrate", "promote", "delete_backup"}

\* One transition of a step, looked at through the three files.
StepEffectsInOrder ==
  pc \in StepPcs =>
        LET migrating == schemaStateFile = Some(activeState(call.version))
        IN /\ Cardinality({i \in 1..3 : disk'[i] # disk[i]}) <= 1
           /\ (schemaStateFile' # schemaStateFile /\ schemaStateFile'[1].status = "migrating")
                => (pc = "loop" /\ schemaStateFile = Some(createReadyState(call.version)))
           /\ (backupFile' # backupFile /\ backupFile' # None)
                => (migrating /\ sessionsFile = barrierLog)
           /\ (sessionsFile' # sessionsFile)
                => (migrating /\ backupFile = sessionsFile)
           /\ (schemaStateFile' # schemaStateFile /\ schemaStateFile'[1].status = "ready")
                => /\ migrating
                   /\ schemaStateFile'[1].schemaVersion = call.version + 1
                   /\ backupFile # None
                   /\ sessionsFile = Some(NormalizeAll(readSessionRecords(backupFile),
                                                       call.version + 1))
           /\ (backupFile' = None /\ backupFile # None)
                => schemaStateFile = Some(createReadyState(call.version + 1))

\* C12: inside a step every disk effect finds the effects before it done: the
\* MIGRATING state is written with log and backup untouched; the backup is written
\* under that MIGRATING state from the log as it was at the barrier; the log is
\* rewritten only under the MIGRATING state and with the backup equal to it; the
\* READY state of the next version is written only over the transformed backup
\* content; the backup is deleted only under that READY state.
C12_StepEffectsInOrder == [][StepEffectsInOrder]_vars

C12_Witness ==
  /\ pc = "loop"
  /\ Len(call.applied) = 1
  /\ sessionsFile # Some(<<>>)
  /\ sessionsFile # hist.initLog

\* A runMigrations call ends (returns or throws) right after a call that returned
\* successfully and had the same target.
SecondCallEnds ==
  /\ pc # "idle"
  /\ pc' = "idle"
  /\ outcome'.kind \in {"returned", "threw"}
  /\ outcome'.afterReturned
  /\ outcome'.targetVersion = outcome'.afterTarget

\* C13: the call that follows a successful call with the same target returns
\* up-to-date with applied = [] and recovered = false, has written no file, and
\* leaves schema state, log and backup as it found them.
C13_SecondCallUpToDateNoWrite ==
  [][ SecondCallEnds
      => /\ outcome'.kind = "returned"
         /\ outcome'.status = "up-to-date"
         /\ outcome'.applied = <<>>
         /\ ~outcome'.recovered
         /\ ~outcome'.wrote
         /\ disk' = <<entry.state, entry.log, entry.backup>> ]_vars

C13_Witness ==
  /\ MigrationsEnded
  /\ outcome.afterReturned
  /\ outcome.targetVersion = outcome.afterTarget
  /\ outcome.toVersion = CURRENT_SCHEMA_VERSION
  /\ hist.initVersion = 1
  /\ sessionsFile # Some(<<>>)

\* A runMigrations call with a target of at least 1 ends (returns or throws), having
\* found the store READY at a version above its target.
DowngradeCallEnds ==
  /\ pc # "idle"
  /\ pc' = "idle"
  /\ outcome'.kind \in {"returned", "threw"}
  /\ EntryStatus(entry) = "ready"
  /\ call.targetVersion >= 1
  /\ entry.state[1].schemaVersion > call.targetVersion

\* C14 as stated: such a call throws MIGRATION_DOWNGRADE_BLOCKED and no file under
\* the storage root is modified.
C14_DowngradeBlockedNoFileModified ==
  [][ DowngradeCallEnds
      => /\ outcome'.code = "MIGRATION_DOWNGRADE_BLOCKED"
         /\ ~outcome'.wrote
         /\ disk' = <<entry.state, entry.log, entry.backup>> ]_vars

\* C14, amended: such a call throws MIGRATION_DOWNGRADE_BLOCKED; schema state, backup
\* and an existing session log are left as found, and the one write the call may
\* have made is the creation of a missing session log, empty.
C14_DowngradeBlockedOnlyCreatesMissingLog ==
  [][ DowngradeCallEnds
      => /\ outcome'.code = "MIGRATION_DOWNGRADE_BLOCKED"
         /\ schemaStateFile' = entry.state
         /\ backupFile' = entry.backup
         /\ sessionsFile' = (IF entry.log = None THEN Some(<<>>) ELSE entry.log)
         /\ outcome'.wrote <=> (entry.log = None) ]_vars

C14_Witness ==
  /\ MigrationsEnded
  /\ outcome.code = "MIGRATION_DOWNGRADE_BLOCKED"
  /\ outcome.targetVersion = 1
  /\ outcome.entryStatus = "ready"
  /\ outcome.wrote

\* C15: a runMigrations call to the current version that is neither interrupted nor
\* cut off, entered with a session log that parses, returns with the store READY at
\* its target, whatever failed or cut-off calls came before. (A store left MIGRATING
\* without a backup file makes every later call throw MIGRATION_RECOVERY_FAILED.)
C15_CleanCallReachesTarget ==
  ( /\ MigrationsEnded
    /\ outcome.targetVersion = CURRENT_SCHEMA_VERSION
    /\ ~outcome.interrupt
    /\ outcome.entryParses )
  => /\ outcome.kind = "returned"
     /\ OnDiskReady
     /\ schemaStateFile[1].schemaVersion = outcome.targetVersion

\* C16: from an empty root or a READY store at version 1, whenever the disk says
\* READY at a version of at least 2, every line of the log is a record whose
\* checksum is the hash of its id, updatedAt, payload and deleted flag.
C16_ReadyV2LogHasChecksums ==
  ( /\ hist.initVersion \in {0, 1}
    /\ OnDiskReady
    /\ schemaStateFile[1].schemaVersion >= 2 )
  => \A i \in 1..Len(FileLines(sessionsFile)) :
       LET r == FileLines(sessionsFile)[i]
       IN /\ r.form = "record"
          /\ r.checksum = Some(<<"sha256", <<"deleted", r.deleted = Some(TRUE), "id", r.id,
                                             "payload", r.payload, "updatedAt", r.updatedAt>>>>)

C16_Witness ==
  /\ hist.initVersion = 1
  /\ OnDiskReady
  /\ schemaStateFile[1].schemaVersion = 2
  /\ Len(FileLines(sessionsFile)) = 2
  /\ FileLines(sessionsFile)[2].deleted = Some(TRUE)

\* C17: on a store that started at schema 1 with no blank id or updatedAt, a
\* checkSessionIntegrity call right after a runMigrations call that returned at
\* version 2 reports healthy = true, schemaVersion = 2 and issueCount = 0.
C17_IntegrityHealthyAfterMigration ==
  ( /\ pc = "idle"
    /\ outcome.op = "checkSessionIntegrity"
    /\ outcome.afterReturned
    /\ outcome.afterToVersion = 2
    /\ hist.initVersion = 1
    /\ \A i \in 1..Len(FileLines(hist.initLog)) :
         LET r == FileLines(hist.initLog)[i]
         IN r.form = "record" => (r.id \notin {"", " "} /\ r.updatedAt \notin {"", " "}) )
  => /\ outcome.kind = "returned"
     /\ outcome.report # None
     /\ outcome.report[1].healthy
     /\ outcome.report[1].schemaVersion = 2
     /\ outcome.report[1].issueCount = 0

C17_Witness ==
  /\ pc = "idle"
  /\ outcome.op = "checkSessionIntegrity"
  /\ outcome.afterReturned
  /\ outcome.afterToVersion = 2
  /\ hist.initVersion = 1
  /\ outcome.kind = "returned"
  /\ Len(FileLines(sessionsFile)) = 2
  /\ FileLines(sessionsFile) = NormalizeAll(FileLines(hist.initLog), 2)

\* C18: the v1-to-v2 transform leaves as many records as it found, in the same
\* order, each with the id, updatedAt, payload and deleted flag it had and with a
\* checksum added.
C18_MigrationKeepsEveryRecord ==
  [][ (pc = "migrate" /\ pc' = "promote" /\ call.version = 1)
      => LET old == FileLines(sessionsFile)
             new == FileLines(sessionsFile')
         IN /\ Len(new) = Len(old)
            /\ \A i \in 1..Len(old) :
                 /\ new[i].id = old[i].id
                 /\ new[i].updatedAt = old[i].updatedAt
                 /\ new[i].payload = old[i].payload
                 /\ new[i].deleted = old[i].deleted
                 /\ new[i].checksum # None ]_vars

C18_Witness ==
  /\ pc = "promote"
  /\ call.version = 1
  /\ Len(FileLines(sessionsFile)) = 2
  /\ FileLines(sessionsFile)[1].deleted = Some(TRUE)
  /\ FileLines(sessionsFile)[2].deleted = None
  /\ FileLines(backupFile)[1].checksum = None

\* C19: while a call is inside a step, exactly one step has been started and not
\* finished, and it is the step from the version after the last one applied; when
\* a call returns, applied lists the steps from fromVersion up to the target, one
\* per version in increasing order, and nothing else was started; status is
\* migrated exactly when applied is non-empty; toVersion is the version on disk.
C19_StepsOneAtATimeInOrder ==
  /\ pc \in StepPcs
       => /\ call.version = call.fromVersion + Len(call.applied)
          /\ \A i \in 1..Len(call.applied) :
               call.applied[i] = "v" \o ToString(call.fromVersion + i - 1)
                                   \o "-to-v" \o ToString(call.fromVersion + i)
          /\ IF pc = "loop"
               THEN call.attempted = call.applied
               ELSE call.attempted = Append(call.applied,
                      "v" \o ToString(call.version) \o "-to-v" \o ToString(call.version + 1))
  /\ (MigrationsEnded /\ outcome.kind = "returned")
       => /\ outcome.fromVersion <= outcome.targetVersion
          /\ outcome.applied =
               [i \in 1..(outcome.targetVersion - outcome.fromVersion) |->
                  "v" \o ToString(outcome.fromVersion + i - 1)
                    \o "-to-v" \o ToString(outcome.fromVersion + i)]
          /\ outcome.attempted = outcome.applied
          /\ outcome.status \in {"migrated", "up-to-date"}
          /\ outcome.status = "migrated" <=> outcome.applied # <<>>
          /\ OnDiskReady
          /\ outcome.toVersion = schemaStateFile[1].schemaVersion

C19_Witness ==
  /\ MigrationsEnded
  /\ outcome.kind = "returned"
  /\ outcome.status = "migrated"
  /\ outcome.applied = <<"v1-to-v2">>
  /\ outcome.fromVersion = 1
  /\ outcome.toVersion = 2

\* The place of the last line of records that carries id.
LastIndex(records, id) ==
  CHOOSE i \in 1..Len(records) :
    /\ records[i].id = id
    /\ \A j \in (i + 1)..Len(records) : records[j].id # id

\* The ids of records whose last line is not a tombstone.
LiveIds(records) ==
  { records[i].id : i \in { k \in 1..Len(records) :
      /\ LastIndex(records, records[k].id) = k
      /\ records[k].deleted # Some(TRUE) } }

\* C20: a compactSessions call that returns leaves exactly one record for every id
\* whose last line was not a tombstone and none for any other id; that record has
\* the fields of the id's last line and the checksum of the current schema; the
\* report counts the lines before and after, after <= before, removed = before - after.
C20_CompactionKeepsLastLiveRecords ==
  [][ (pc = "idle" /\ outcome'.op = "compactSessions" /\ outcome'.kind = "returned")
      => LET old == FileLines(sessionsFile)
             new == FileLines(sessionsFile')
             v   == schemaStateFile'[1].schemaVersion
         IN /\ { new[i].id : i \in 1..Len(new) } = LiveIds(old)
            /\ Len(new) = Cardinality(LiveIds(old))
            /\ \A i \in 1..Len(new) :
                 LET last == old[LastIndex(old, new[i].id)]
                 IN /\ new[i].updatedAt = last.updatedAt
                    /\ new[i].payload = last.payload
                    /\ new[i].deleted = last.deleted
                    /\ new[i].checksum =
                         IF v >= 2
                           THEN Some(<<"sha256", <<"deleted", FALSE, "id", last.id,
                                       "payload", last.payload, "updatedAt", last.updatedAt>>>>)
                           ELSE None
            /\ outcome'.report[1].before = Len(old)
            /\ outcome'.report[1].after = Len(new)
            /\ outcome'.report[1].after <= outcome'.report[1].before
            /\ outcome'.report[1].removed = Len(old) - Len(new) ]_vars

C20_Witness ==
  /\ outcome.op = "compactSessions"
  /\ outcome.kind = "returned"
  /\ outcome.report[1].before = MaxLen + 1
  /\ outcome.report[1].after = 1
  /\ FileLines(hist.initLog)[1].deleted = Some(TRUE)
  /\ FileLines(sessionsFile)[1].id = FileLines(hist.initLog)[1].id

\* C21: a compactSessions call that follows a compactSessions call which returned
\* leaves the log as it is and reports removed = 0.
C21_SecondCompactionChangesNothing ==
  [][ ( /\ pc = "idle"
        /\ outcome.op = "compactSessions"
        /\ outcome.kind = "returned"
        /\ pc' = "idle"
        /\ outcome'.op = "compactSessions" )
      => /\ outcome'.kind = "returned"
         /\ sessionsFile' = sessionsFile
         /\ outcome'.report[1].removed = 0
         /\ outcome'.report[1].after = outcome'.report[1].before ]_vars

\* A second compaction has run on a log the first one shortened to two records.
C21_Witness ==
  /\ outcome.op = "compactSessions"
  /\ outcome.kind = "returned"
  /\ outcome.report[1].before = 2
  /\ outcome.report[1].removed = 0
  /\ Len(FileLines(hist.initLog)) = 3
  /\ Len(FileLines(sessionsFile)) = 2

\* C22: a checkSessionIntegrity call leaves every file under the storage root as it
\* found it. (On a root without schema state or session log the call creates them.)
C22_IntegrityCheckWritesNothing ==
  [][ (pc = "idle" /\ pc' = "idle" /\ outcome'.op = "checkSessionIntegrity")
      => disk' = disk ]_vars

\* The report of the last call, a checkSessionIntegrity call that returned.
IntegrityReturned ==
  /\ pc = "idle"
  /\ outcome.op = "checkSessionIntegrity"
  /\ outcome.kind = "returned"

\* The report lists an issue with this code for the record at position n.
Reports(code, n) ==
  \E k \in 1..Len(outcome.report[1].issues) :
    outcome.report[1].issues[k] = [code |-> code, line |-> n]

\* The checksum the record at position n of the log should carry.
Recomputed(r) ==
  <<"sha256", <<"deleted", r.deleted = Some(TRUE), "id", r.id,
                "payload", r.payload, "updatedAt", r.updatedAt>>>>

\* What C23 says of the blank fields and of the report's summary.
FieldsAndSummaryReported ==
  LET records == FileLines(sessionsFile)
      report  == outcome.report[1]
  IN /\ report.schemaVersion = schemaStateFile[1].schemaVersion
     /\ report.healthy <=> (report.issues = <<>>)
     /\ report.issueCount = Len(report.issues)
     /\ \A k \in 1..Len(report.issues) : report.issues[k].line \in 1..Len(records)
     /\ \A n \in 1..Len(records) :
          /\ Reports("SESSION_ID_EMPTY", n) <=> records[n].id \in {"", " "}
          /\ Reports("SESSION_UPDATED_AT_EMPTY", n) <=> records[n].updatedAt \in {"", " "}
          /\ report.schemaVersion < 2
               => (~Reports("CHECKSUM_MISSING", n) /\ ~Reports("CHECKSUM_INVALID", n))

\* C23 as stated: at schema 2 or higher CHECKSUM_MISSING is reported iff the
\* checksum field is absent, CHECKSUM_INVALID iff it is present and differs from
\* the recomputed checksum. (A checksum that is the empty string is reported missing.)
C23_IssuesMatchRecords ==
  IntegrityReturned
  => /\ FieldsAndSummaryReported
     /\ \A n \in 1..Len(FileLines(sessionsFile)) :
          LET r == FileLines(sessionsFile)[n]
          IN outcome.report[1].schemaVersion >= 2
               => /\ Reports("CHECKSUM_MISSING", n) <=> r.checksum = None
                  /\ Reports("CHECKSUM_INVALID", n)
                       <=> (r.checksum # None /\ r.checksum[1] # Recomputed(r))

\* C23, amended: CHECKSUM_MISSING iff the checksum is absent or empty,
\* CHECKSUM_INVALID iff it is non-empty and differs from the recomputed checksum.
C23_IssuesMatchRecordsEmptyIsMissing ==
  IntegrityReturned
  => /\ FieldsAndSummaryReported
     /\ \A n \in 1..Len(FileLines(sessionsFile)) :
          LET r     == FileLines(sessionsFile)[n]
              empty == r.checksum = None \/ r.checksum = Some(<<>>)
          IN outcome.report[1].schemaVersion >= 2
               => /\ Reports("CHECKSUM_MISSING", n) <=> empty
                  /\ Reports("CHECKSUM_INVALID", n)
                       <=> (~empty /\ r.checksum[1] # Recomputed(r))

\* A report at schema 2 on two records: one with a blank id, a blank updatedAt
\* and an empty checksum, one whose checksum is the hash of other content.
C23_Witness ==
  /\ IntegrityReturned
  /\ outcome.report[1].schemaVersion = 2
  /\ outcome.report[1].issueCount = 4
  /\ Reports("SESSION_ID_EMPTY", 1)
  /\ Reports("SESSION_UPDATED_AT_EMPTY", 1)
  /\ Reports("CHECKSUM_MISSING", 1)
  /\ FileLines(sessionsFile)[1].checksum = Some(<<>>)
  /\ Reports("CHECKSUM_INVALID", 2)

\* C24: whenever a reader looks at the schema-state file during or after a write of
\* it, the file holds all of what it held before the write or all of what the
\* write puts there.
C24_SchemaStateOldOrNew ==
  fileWrite.target = "state"
  => (schemaStateFile = fileWrite.old \/ schemaStateFile = fileWrite.content)

\* The rename of a schema-state write is about to replace a different state.
C24_Witness ==
  /\ fileWrite.target = "state"
  /\ fileWrite.step = "rename"
  /\ fileWrite.temp = Some(activeState(1))
  /\ schemaStateFile = Some(createReadyState(1))

\* C25: whenever a reader or a crash finds a file of the storage root during or
\* after a write of it, the file holds all of what it held before the write or
\* all of what the write puts there. (backupSessions writes the backup in place.)
C25_EveryFileOldOrNew ==
  fileWrite.target # "none"
  => (File(fileWrite.target) = fileWrite.old \/ File(fileWrite.target) = fileWrite.content)

\* C26: a checkSessionIntegrity, compactSessions or writeSessionRecords call leaves
\* the schema-state file as it found it, and no step of any operation removes the
\* file. (On a root without schema state each of the three calls creates it.)
C26_OnlyMigrationsWriteSchemaState ==
  [][ /\ ( /\ pc = "idle"
           /\ pc' = "idle"
           /\ outcome'.op \in {"checkSessionIntegrity", "compactSessions",
                               "writeSessionRecords"} )
        => schemaStateFile' = schemaStateFile
      /\ schemaStateFile # None => schemaStateFile' # None ]_vars

\* C27: a runMigrations call whose target is below 1 or above the current schema
\* version throws MIGRATION_TARGET_UNSUPPORTED and neither starts nor applies a
\* step; no call with such a target is ever inside a step.
C27_TargetOutOfRangeRejected ==
  /\ (pc \in StepPcs \ {"loop"}) => call.targetVersion \in 1..CURRENT_SCHEMA_VERSION
  /\ ( /\ MigrationsEnded
       /\ (outcome.targetVersion < 1 \/ outcome.targetVersion > CURRENT_SCHEMA_VERSION) )
     => /\ outcome.kind = "threw"
        /\ outcome.code = "MIGRATION_TARGET_UNSUPPORTED"
        /\ outcome.applied = <<>>
        /\ outcome.attempted = <<>>
        /\ ~outcome.recoveryRan

C27_Witness ==
  /\ MigrationsEnded
  /\ outcome.targetVersion = 0
  /\ outcome.code = "MIGRATION_TARGET_UNSUPPORTED"
  /\ outcome.entryStatus = "ready"
  /\ schemaStateFile = Some(createReadyState(1))

\* C28: a call that needs a step for which no transform is registered throws
\* MIGRATION_PATH_MISSING; the throw writes no file and finds the store READY at
\* the version of that step, the log as the call found it, no MIGRATING state
\* written for the step and every step started before it applied.
C28_PathMissingBeforeBarrier ==
  [][ /\ ( /\ pc = "loop"
           /\ pc' = "idle"
           /\ outcome'.kind = "threw"
           /\ MigrationId(call.version, call.version + 1) \notin {"v1-to-v2"} )
        => /\ outcome'.code = "MIGRATION_PATH_MISSING"
           /\ disk' = disk
           /\ schemaStateFile' = Some([schemaVersion |-> call.version, status |-> "ready",
                                       targetVersion |-> None, migrationId |-> None,
                                       backupPath |-> None])
           /\ (~call.recoveryRan /\ entry.log # None) => sessionsFile' = entry.log
           /\ outcome'.attempted = outcome'.applied
           /\ call.version = call.fromVersion + Len(call.applied)
      /\ ( /\ pc # "idle"
           /\ pc' = "idle"
           /\ outcome'.kind \in {"returned", "threw"}
           /\ EntryStatus(entry) = "ready"
           /\ entry.state[1].schemaVersion < 1
           /\ call.targetVersion \in 1..CURRENT_SCHEMA_VERSION )
        => outcome'.code = "MIGRATION_PATH_MISSING" ]_vars

C28_Witness ==
  /\ MigrationsEnded
  /\ outcome.code = "MIGRATION_PATH_MISSING"
  /\ outcome.message = "No migration registered for v0-to-v1"
  /\ schemaStateFile = Some(createReadyState(0))
  /\ Len(FileLines(sessionsFile)) = 2

\* C29: a runMigrations call that returned reports recovered = true exactly when
\* it found status MIGRATING on entry and ran the recovery protocol.
C29_RecoveredIffRecoveryRan ==
  (MigrationsEnded /\ outcome.kind = "returned")
  => (outcome.recovered <=> (outcome.entryStatus = "migrating" /\ outcome.recoveryRan))

C29_Witness ==
  /\ MigrationsEnded
  /\ outcome.kind = "returned"
  /\ outcome.recovered
  /\ outcome.entryStatus = "migrating"
  /\ outcome.status = "up-to-date"
  /\ outcome.targetVersion = 1

\* C30: an ensureStorageInitialized call creates the schema state, READY at the
\* current schema version, where there is none, and the session log, empty, where
\* there is none; a file that exists is left as it is, and the backup is not touched.
C30_InitializeCreatesOnlyWhatIsAbsent ==
  [][ (pc = "idle" /\ pc' = "idle" /\ outcome'.op = "ensureStorageInitialized")
      => /\ schemaStateFile' =
              IF schemaStateFile = None
                THEN Some([schemaVersion |-> CURRENT_SCHEMA_VERSION, status |-> "ready",
                           targetVersion |-> None, migrationId |-> None,
                           backupPath |-> None])
                ELSE schemaStateFile
         /\ sessionsFile' = IF sessionsFile = None THEN Some(<<>>) ELSE sessionsFile
         /\ backupFile' = backupFile
         /\ outcome'.kind = "returned" ]_vars

\* The call has created the schema state next to a session log that was there.
C30_Witness ==
  /\ outcome.op = "ensureStorageInitialized"
  /\ written = Some(createReadyState(CURRENT_SCHEMA_VERSION))
  /\ Len(FileLines(sessionsFile)) = 2
  /\ backupFile # None

\* C31: the root is the explicit argument when that is not blank, else
\* MACHINA_STORAGE_DIR when that is not blank, else <home>/.machina/storage;
\* STORAGE_HOME_MISSING is thrown exactly when none of the three is there; the
\* three files are sessions.jsonl, schema-state.json and sessions.backup.jsonl
\* under the root.
C31_RootResolutionOrder ==
  policy.called =>
    LET explicit == policy.explicitDir
        fromEnv  == policy.env.MACHINA_STORAGE_DIR
        home     == IF policy.env.HOME # None THEN policy.env.HOME ELSE policy.env.USERPROFILE
        hasExplicit == explicit # None /\ explicit[1] \notin {"", " "}
        hasEnv   == fromEnv # None /\ fromEnv[1] \notin {"", " "}
        hasHome  == home # None /\ home[1] # ""
        result   == policy.result
    IN /\ result.kind = "threw" <=> (~hasExplicit /\ ~hasEnv /\ ~hasHome)
       /\ result.kind = "threw" => result.code = "STORAGE_HOME_MISSING"
       /\ result.kind = "returned" =>
            /\ result.rootDir =
                 IF hasExplicit THEN explicit[1]
                 ELSE IF hasEnv THEN fromEnv[1]
                 ELSE home[1] \o "/.machina/storage"
            /\ result.source =
                 IF hasExplicit THEN "explicit" ELSE IF hasEnv THEN "env" ELSE "default"
            /\ result.sessionsFile = result.rootDir \o "/sessions.jsonl"
            /\ result.schemaStateFile = result.rootDir \o "/schema-state.json"
            /\ result.backupFile = result.rootDir \o "/sessions.backup.jsonl"

\* A blank explicit argument falls through to the environment.
C31_Witness ==
  /\ policy.called
  /\ policy.explicitDir = Some(" ")
  /\ policy.env.HOME = Some("/home/user")
  /\ policy.result.kind = "returned"
  /\ policy.result.rootDir = "/from-env"

\* One step of the program keeps or raises the schemaVersion of a schema-state
\* file that is there before and after the step.
VersionKeptOrRaised ==
  (schemaStateFile # None /\ schemaStateFile' # None) =>
    schemaStateFile'[1].schemaVersion >= schemaStateFile[1].schemaVersion

\* C37: the schemaVersion stored in the schema-state file never decreases,
\* whatever runMigrations calls are made: returned, failed, interrupted or
\* recovering ones.
C37_SchemaVersionNeverDecreases == [][VersionKeptOrRaised]_vars

\* A call that recovered an interrupted step from version 1 and then migrated
\* has returned, with the file at version 2.
C37_Witness ==
  /\ outcome.op = "runMigrations"
  /\ outcome.kind = "returned"
  /\ outcome.recoveryRan
  /\ outcome.fromVersion = 1
  /\ schemaStateFile # None
  /\ schemaStateFile[1].schemaVersion = 2

\* The step in which migrate(paths) replaces the log: the log it writes is
\* left as it is by the transform; a log whose records all carried the checksum
\* already is written back unchanged; and every attempt, the first or one made
\* again after a recovery, writes the transform of the log the store began with.
TransformStable ==
  (pc = "migrate" /\ pc' = "promote") =>
    LET id  == MigrationId(call.version, call.version + 1)
        in  == FileLines(sessionsFile)
        out == FileLines(sessionsFile')
    IN /\ Migrate(id, out) = out
       /\ (\A i \in 1..Len(in) : in[i].checksum # None) => out = in
       /\ (call.version = 1 /\ hist.initLog # None) =>
            out = NormalizeAll(hist.initLog[1], 2)

\* C38: normalizing for schema 2 is idempotent: v1-to-v2 applied to a log that
\* was transformed already yields the same log, so a step attempted again gives
\* the content one attempt gives.
C38_TransformIdempotent == [][TransformStable]_vars

\* After a recovery, v1-to-v2 has rewritten a full log whose records carried the
\* checksum from the start; the backup holds what it read.
C38_Witness ==
  /\ pc = "promote"
  /\ call.version = 1
  /\ call.recoveryRan
  /\ backupFile # None
  /\ Len(FileLines(backupFile)) = MaxLen
  /\ \A i \in 1..Len(FileLines(backupFile)) : FileLines(backupFile)[i].checksum # None
  /\ sessionsFile = backupFile
  /\ hist.initLog = backupFile

\* The last execute call has ended, and it was made on a registered privileged tool.
PrivilegedCallEnded ==
  /\ tools.pc = "idle"
  /\ tools.request # None
  /\ tools.toolId \in {"storage.write-maintenance-marker", "storage.fail-echo"}

\* The audit records the call in progress, or the last call, has appended.
AuditAppended == SubSeq(tools.auditLog, tools.auditBefore + 1, Len(tools.auditLog))

\* The call has appended one record, with this decision and status.
OneAuditRecord(decision, status) ==
  /\ Len(AuditAppended) = 1
  /\ AuditAppended[1].decision = decision
  /\ AuditAppended[1].status = status
  /\ AuditAppended[1].action = tools.toolId
  /\ AuditAppended[1].operationId = tools.request[1].operationId

\* The identifiers of the model that are safe once trimmed.
ContextIsValid ==
  /\ tools.request[1].actor \in {<<"b", "o", "t">>, <<" ", "b", "o", "t", " ">>}
  /\ tools.request[1].operationId = <<"o", "p", "-", "1">>

\* The request names a storage root: a directory argument or MACHINA_STORAGE_DIR.
RootIsNamed ==
  \/ tools.request[1].storageDir # None
  \/ tools.request[1].env.MACHINA_STORAGE_DIR # None

\* C32 as stated: with privilegedApproved=false the body never runs and execute
\* raises ToolPolicyError POLICY_DENIED after one denied/blocked audit record.
C32_DeniedIsPolicyDenied ==
  (PrivilegedCallEnded /\ ~tools.request[1].permissionState.privilegedApproved) =>
    /\ ~tools.ranBody
    /\ tools.result.kind = "threw"
    /\ tools.result.name = "ToolPolicyError"
    /\ tools.result.code = "POLICY_DENIED"
    /\ OneAuditRecord("denied", "blocked")

\* C32: with privilegedApproved=false the body of a privileged tool never runs.
\* When the storage root resolves, execute appends one denied/blocked audit
\* record and only then raises ToolPolicyError, with code POLICY_DENIED when
\* actor and operationId are safe identifiers and POLICY_INVALID_CONTEXT when
\* they are not; when the root does not resolve it appends nothing and raises
\* STORAGE_HOME_MISSING.
C32_DeniedNeverRunsBody ==
  /\ (/\ tools.request # None
      /\ tools.toolId \in {"storage.write-maintenance-marker", "storage.fail-echo"}
      /\ ~tools.request[1].permissionState.privilegedApproved)
     => /\ ~tools.ranBody
        /\ tools.pc \in {"idle", "deny", "throw_policy"}
  /\ tools.pc = "throw_policy" => OneAuditRecord("denied", "blocked")
  /\ (PrivilegedCallEnded /\ ~tools.request[1].permissionState.privilegedApproved) =>
       /\ tools.result.kind = "threw"
       /\ IF RootIsNamed
            THEN /\ tools.result.name = "ToolPolicyError"
                 /\ tools.result.code =
                      IF ContextIsValid THEN "POLICY_DENIED" ELSE "POLICY_INVALID_CONTEXT"
                 /\ OneAuditRecord("denied", "blocked")
                 /\ AuditAppended[1].denialReason =
                      IF ContextIsValid THEN "privileged-approval-required"
                                        ELSE "invalid-privileged-context"
            ELSE /\ tools.result.code = "STORAGE_HOME_MISSING"
                 /\ AuditAppended = <<>>

\* A denied call with a safe context on a root that resolves has ended.
C32_Witness ==
  /\ PrivilegedCallEnded
  /\ ~tools.request[1].permissionState.privilegedApproved
  /\ tools.request[1].actor = <<" ", "b", "o", "t", " ">>
  /\ tools.result.code = "POLICY_DENIED"
  /\ Len(tools.auditLog) = 1
  /\ schemaStateFile # None

\* C33: every execute call on a registered privileged tool appends exactly one
\* audit record, blocked when the policy denies, succeeded when the body
\* returns, failed when the body throws; a call on a safe tool appends none.
C33_OneAuditRecordPerPrivilegedCall ==
  (tools.pc = "idle" /\ tools.request # None /\ tools.toolId \in DOMAIN ToolDefinitions) =>
    IF ToolDefinitions[tools.toolId].permissionClass = "privileged"
      THEN /\ Len(AuditAppended) = 1
           /\ AuditAppended[1].status =
                IF ~tools.ranBody THEN "blocked"
                ELSE IF tools.result.kind = "returned" THEN "succeeded"
                ELSE "failed"
      ELSE AuditAppended = <<>>

\* The last call of the registry was a disconnect that has ended, made on a
\* channel the registry held as disconnected when the call began.
DisconnectOfDisconnectedEnded ==
  /\ channels.pc = "idle"
  /\ channels.op.kind = "disconnect"
  /\ channels.op.channelId \in DOMAIN channels.before.channelState
  /\ channels.before.channelState[channels.op.channelId].status = "disconnected"

\* The two calls that ended last were disconnects of the same channel that returned.
TwoDisconnectsInARow ==
  /\ channels.pc = "idle"
  /\ channels.op.kind = "disconnect"
  /\ channels.previous.kind = "disconnect"
  /\ channels.op.channelId = channels.previous.channelId
  /\ channels.result.kind = "returned"
  /\ channels.previous.result.kind = "returned"

\* C34: disconnect on a channel that is disconnected already changes neither
\* the map in memory nor the channels-state file (connectorId, updatedAt and
\* error stay), does not call the connector and returns the channel's record;
\* two disconnects in a row return the same status record.
C34_DisconnectIdempotent ==
  /\ DisconnectOfDisconnectedEnded =>
       /\ channels.channelState = channels.before.channelState
       /\ channels.file = channels.before.file
       /\ ~channels.connectorCalled
       /\ channels.result.kind = "returned"
       /\ channels.result.status =
            Some(toStatus(channels.op.channelId,
                          channels.before.channelState[channels.op.channelId]))
  /\ TwoDisconnectsInARow => channels.result.status = channels.previous.result.status

\* A connected channel was disconnected and then disconnected again, by the
\* same registry, and the second call has ended.
C34_Witness ==
  /\ DisconnectOfDisconnectedEnded
  /\ TwoDisconnectsInARow
  /\ channels.file # None
  /\ channels.result.status # None
  /\ channels.result.status[1].updatedAt = Some(MaxClock)
  /\ channels.result.status[1].error = None

\* The last call was a connect that reached the connector, or a disconnect
\* that returned.
ChannelCallPersisted ==
  /\ channels.pc = "idle"
  /\ \/ channels.op.kind = "connect" /\ channels.connectorCalled
     \/ channels.op.kind = "disconnect" /\ channels.result.kind = "returned"

\* What status(channelId) of a registry holding this map reports.
StatusIn(map, channelId) ==
  IF channelId \in DOMAIN map THEN toStatus(channelId, map[channelId])
                              ELSE UnknownStatus(channelId)

\* C35: after a connect that reached the connector and after a disconnect that
\* returned, the channels-state file holds the map the registry has in memory,
\* and a new registry on the root reports every channel as this one does.
C35_FileEqualsMemory ==
  ChannelCallPersisted =>
    /\ readStateFile(channels.file) = channels.channelState
    /\ \A channelId \in ChannelIds :
         StatusIn(Loaded([NoChannels EXCEPT !.file = channels.file]), channelId)
           = StatusIn(channels.channelState, channelId)

\* A connect on which the connector threw has ended, a second channel being
\* connected: both are in the file.
C35_Witness ==
  /\ ChannelCallPersisted
  /\ channels.op.kind = "connect"
  /\ channels.result.kind = "threw"
  /\ channels.result.code = "CHANNEL_CONNECT_FAILED"
  /\ DOMAIN channels.channelState = ChannelIds
  /\ \E c \in ChannelIds : channels.channelState[c].status = "connected"

\* The last run has ended: it returned, or an error of a cleanup left it.
WorkflowRunEnded ==
  /\ workflow.pc = "idle"
  /\ workflow.workflowName \in RegisteredWorkflows
  /\ workflow.result.kind \in {"returned", "threw"}

\* C36: when the cancel timer fires before the body settles, run returns
\* status=cancelled with no result and a log entry of status cancelled, and
\* every cleanup the body registered has completed by then.
C36_CancelledAfterCleanups ==
  (WorkflowRunEnded /\ workflow.aborted) =>
    /\ workflow.result.kind = "returned"
    /\ workflow.result.status = "cancelled"
    /\ ~workflow.result.hasResult
    /\ workflow.result.logStatus = "cancelled"
    /\ Len(workflow.result.completed) = Len(workflow.result.registered)

\* run has returned status=cancelled and its body has not settled.
CancelledWhileBodyRuns ==
  /\ workflow.pc = "idle"
  /\ workflow.result.kind = "returned"
  /\ workflow.result.status = "cancelled"
  /\ workflow.body = "running"

\* Once run has returned cancelled, the body goes no further: it writes nothing
\* to the storage root, moves to no next operation and registers nothing.
BodyStopsOnceCancelled ==
  CancelledWhileBodyRuns =>
    /\ disk' = disk
    /\ pc' = pc
    /\ workflow'.cleanups = workflow.cleanups

\* C39: when run returns status=cancelled the body takes no further step; a
\* storage.migrate workflow cancelled through cancelAfterMs writes nothing to
\* the storage root after run has returned.
C39_NoStepAfterCancelledReturn == [][BodyStopsOnceCancelled]_vars

\* C40: run runs every cleanup registered through addCleanup exactly once, in
\* reverse order of registration, whether it ends completed, failed or
\* cancelled, and only after the body has settled or the abort has fired.
C40_EveryCleanupOnceInReverse ==
  /\ WorkflowRunEnded =>
       workflow.ran = [i \in 1..Len(workflow.cleanups) |->
                         workflow.cleanups[Len(workflow.cleanups) + 1 - i].id]
  /\ workflow.pc = "cleanup" => (workflow.aborted \/ workflow.body \in {"returned", "threw"})

====
